---- MODULE Spec2Model ----
(***************************************************************************)
(* Crosshair / slice coordinator of the MPR viewer: the cursor fractions   *)
(* (norm_coords), the four slice indices, the oblique rotation, the        *)
(* selected tool and the per-view cine flags, driven by the viewer's event *)
(* handlers (load, click, wheel, cine tick, reset, crop, rotation drag).   *)
(*                                                                         *)
(* Floating-point fractions are modelled as exact rationals <<n, d>> in    *)
(* lowest terms with d > 0; int() is truncation toward zero.               *)
(***************************************************************************)
EXTENDS Integers, Sequences, FiniteSets, TLC

VARIABLES file_loaded, dims, original_dims, norm_coords, slices,
          rot_x_deg, rot_y_deg, tool, cine_active, oblique_view_enabled,
          emitted, last_event, call, ret, segmentation_data_list,
          load_worker, merged_volume, cache, viewer3d,
          intensity_min, intensity_max,
          original_intensity_min, original_intensity_max,
          segmentation_manager, seg_call, recent_keys,
          mtime, disk_call, saved

vars == <<file_loaded, dims, original_dims, norm_coords, slices,
          rot_x_deg, rot_y_deg, tool, cine_active, oblique_view_enabled,
          emitted, last_event, call, ret, segmentation_data_list,
          load_worker, merged_volume, cache, viewer3d,
          intensity_min, intensity_max,
          original_intensity_min, original_intensity_max,
          segmentation_manager, seg_call, recent_keys,
          mtime, disk_call, saved>>

\* The state of the 2D viewer and of slice extraction.
mpr_vars == <<file_loaded, dims, original_dims, norm_coords, slices,
              rot_x_deg, rot_y_deg, tool, cine_active, oblique_view_enabled,
              emitted, last_event, call, ret, segmentation_data_list>>

\* The state of the 3D viewer's background load.
load3d_vars == <<load_worker, merged_volume, cache, viewer3d>>

\* The intensity window of the 2D viewer and the one the last load gave.
window_vars == <<intensity_min, intensity_max,
                 original_intensity_min, original_intensity_max>>

\* The SegmentationManager, the last call of one of its methods with the
\* value it returned, and the keys of the slices last asked of get_slice.
segman_vars == <<segmentation_manager, seg_call, recent_keys>>

\* The modification times of the segmentation files, the last call of the
\* disk cache with its result, and the volumes saved so far by file set.
disk_vars == <<mtime, disk_call, saved>>

(* ------------------------------ bounds --------------------------------- *)

\* Axis lengths of the regular volume the loader can deliver.
MaxNx == 2
MaxNy == 2
MaxNz == 3
\* Rotation drags reach the angles 0, 90, ..., 90 * MaxQuarterTurns degrees.
MaxQuarterTurns == 1
\* At most this many views run cine playback at the same time.
MaxCine == 1
\* Longest axis of the volumes handed to a slice extraction.
MaxSide == 4
\* Voxel spacings on the affine's diagonal range over -1..MaxSpacing.
MaxSpacing == 3
\* Intensity window bounds range up to MaxIntensity.
MaxIntensity == 4
\* Segmentation files picked in one dialog.
MaxSegFiles == 2

(* ------------------------------ inputs --------------------------------- *)

\* Shapes (Nx, Ny, Nz) a successful load can produce: a regular volume and a
\* flat one whose sagittal and axial axes have a single voxel.
LoadShapes == {<<MaxNx, MaxNy, MaxNz>>, <<1, MaxNy, 1>>}

\* Pointer positions (norm_x, norm_y) as fractions of the displayed image,
\* before _update_crosshair and set_slice_from_crosshair clamp them, each
\* fraction as <<n, d>>: (-0.3, 1.7), (0.2, 0.8) and (0.8, 0.2).
ClickPoints == {<<<<-3, 10>>, <<17, 10>>>>, <<<<1, 5>>, <<4, 5>>>>,
                <<<<4, 5>>, <<1, 5>>>>}

RotAngles == {90 * k : k \in 0..MaxQuarterTurns}

Views == {"axial", "coronal", "sagittal", "oblique"}
OrthoViews == {"axial", "coronal", "sagittal"}

\* Checkable buttons of the exclusive tool group (crop is a plain button).
crosshair_tool == "tool_btn_0_0"
contrast_tool == "tool_btn_0_1"
zoom_tool == "tool_btn_0_2"
rotate_tool == "tool_btn_1_1"
cine_tool == "tool_btn_1_2"
Tools == {crosshair_tool, contrast_tool, zoom_tool, rotate_tool, cine_tool}

\* dims = None
NoDims == <<>>

(* ---------------------------- arithmetic ------------------------------- *)

Abs(x) == IF x < 0 THEN -x ELSE x

RECURSIVE GCD(_, _)
GCD(a, b) == IF b = 0 THEN a ELSE GCD(b, a % b)

\* The rational n/d (d > 0) in lowest terms.
Frac(n, d) ==
    LET g == GCD(Abs(n), d)
    IN  IF n < 0 THEN <<-(Abs(n) \div g), d \div g>> ELSE <<n \div g, d \div g>>

Half == <<1, 2>>

\* Python int() of the rational n/d, d > 0: truncation toward zero.
IntTrunc(n, d) == IF n < 0 THEN -((-n) \div d) ELSE n \div d

\* floor(sqrt(n))
RECURSIVE ISqrtFrom(_, _)
ISqrtFrom(n, r) == IF (r + 1) * (r + 1) > n THEN r ELSE ISqrtFrom(n, r + 1)
ISqrt(n) == ISqrtFrom(n, 0)

\* Variant: the click fraction stored without clamping.
Clamp01_Unclamped(f) == Frac(f[1], f[2])

\* max(0.0, min(1.0, x))
Clamp01(f) == IF f[1] < 0 THEN <<0, 1>>
              ELSE IF f[1] > f[2] THEN <<1, 1>>
              ELSE Frac(f[1], f[2])

(* ------------------------- coordinator helpers ------------------------- *)

\* Index into dims of the axis a view scrolls along (0-based in the source).
AxisOf(view_type) ==
    CASE view_type \in {"axial", "oblique"} -> 3
      [] view_type = "coronal" -> 2
      [] view_type = "sagittal" -> 1

CenterCoords == [S |-> Half, C |-> Half, A |-> Half]

\* reset_crosshair_and_slices: the slice part, skipped while dims is None.
CenterSlices(d, old) ==
    IF d = NoDims THEN old
    ELSE [axial |-> d[3] \div 2, coronal |-> d[2] \div 2,
          sagittal |-> d[1] \div 2, oblique |-> d[3] \div 2]

\* int(norm * (n - 1)) for a clamped fraction
IndexOfFrac(f, n) == IntTrunc(f[1] * (n - 1), f[2])

\* Variant: the axial index taken without the inversion.
IndexOfInvFrac_NotInverted(f, n) == IntTrunc(f[1] * (n - 1), f[2])

\* int((1 - norm) * (n - 1)) for a clamped fraction
IndexOfInvFrac(f, n) == IntTrunc((f[2] - f[1]) * (n - 1), f[2])

\* set_slice_from_crosshair: new cursor for a click at clamped (x, y)
ClickCoords(source_view, x, y) ==
    CASE source_view = "axial" -> [norm_coords EXCEPT !.S = x, !.C = y]
      [] source_view = "coronal" -> [norm_coords EXCEPT !.S = x, !.A = y]
      [] source_view = "sagittal" -> [norm_coords EXCEPT !.C = x, !.A = y]
      [] OTHER -> norm_coords

\* Variant: a click also drags the oblique index along with the axial one
\* and re-centres the clicked view's own slice.
ClickSlices_MovesOwnSlice(source_view, x, y) ==
    IF source_view \in {"axial", "coronal", "sagittal"}
    THEN [slices EXCEPT ![source_view] = dims[AxisOf(source_view)] \div 2,
                        !.oblique = slices.axial]
    ELSE slices

\* set_slice_from_crosshair: new slice indices for a click at clamped (x, y)
ClickSlices(source_view, x, y) ==
    CASE source_view = "axial" ->
            [slices EXCEPT !.coronal = IndexOfFrac(y, dims[2]),
                           !.sagittal = IndexOfFrac(x, dims[1])]
      [] source_view = "coronal" ->
            [slices EXCEPT !.axial = IndexOfInvFrac(y, dims[3]),
                           !.sagittal = IndexOfFrac(x, dims[1])]
      [] source_view = "sagittal" ->
            [slices EXCEPT !.axial = IndexOfInvFrac(y, dims[3]),
                           !.coronal = IndexOfFrac(x, dims[2])]
      [] OTHER -> slices

\* Variant: the fraction divides by the axis length instead of length - 1.
ScrollCoords_OverLength(view_type, i) ==
    CASE view_type = "axial" ->
            [norm_coords EXCEPT !.A = Frac(dims[3] - i, dims[3])]
      [] view_type = "coronal" -> [norm_coords EXCEPT !.C = Frac(i, dims[2])]
      [] view_type = "sagittal" -> [norm_coords EXCEPT !.S = Frac(i, dims[1])]
      [] OTHER -> norm_coords

\* Variant: a single-voxel axis resets its fraction to 0 instead of keeping it.
ScrollCoords_ZeroOnFlat(view_type, i) ==
    CASE view_type = "axial" ->
            IF dims[3] > 1
            THEN [norm_coords EXCEPT !.A = Frac(dims[3] - 1 - i, dims[3] - 1)]
            ELSE [norm_coords EXCEPT !.A = <<0, 1>>]
      [] view_type = "coronal" ->
            IF dims[2] > 1
            THEN [norm_coords EXCEPT !.C = Frac(i, dims[2] - 1)]
            ELSE [norm_coords EXCEPT !.C = <<0, 1>>]
      [] view_type = "sagittal" ->
            IF dims[1] > 1
            THEN [norm_coords EXCEPT !.S = Frac(i, dims[1] - 1)]
            ELSE [norm_coords EXCEPT !.S = <<0, 1>>]
      [] OTHER -> norm_coords

\* Variant: the oblique view is treated like the axial one.
ScrollCoords_ObliqueAsAxial(view_type, i) ==
    CASE view_type \in {"axial", "oblique"} ->
            IF dims[3] > 1
            THEN [norm_coords EXCEPT !.A = Frac(dims[3] - 1 - i, dims[3] - 1)]
            ELSE norm_coords
      [] view_type = "coronal" ->
            IF dims[2] > 1
            THEN [norm_coords EXCEPT !.C = Frac(i, dims[2] - 1)]
            ELSE norm_coords
      [] view_type = "sagittal" ->
            IF dims[1] > 1
            THEN [norm_coords EXCEPT !.S = Frac(i, dims[1] - 1)]
            ELSE norm_coords
      [] OTHER -> norm_coords

\* set_slice_from_scroll: the recomputed fraction, kept when the axis has
\* a single voxel; the oblique view recomputes nothing.
ScrollCoords(view_type, i) ==
    CASE view_type = "axial" ->
            IF dims[3] > 1
            THEN [norm_coords EXCEPT !.A = Frac(dims[3] - 1 - i, dims[3] - 1)]
            ELSE norm_coords
      [] view_type = "coronal" ->
            IF dims[2] > 1
            THEN [norm_coords EXCEPT !.C = Frac(i, dims[2] - 1)]
            ELSE norm_coords
      [] view_type = "sagittal" ->
            IF dims[1] > 1
            THEN [norm_coords EXCEPT !.S = Frac(i, dims[1] - 1)]
            ELSE norm_coords
      [] OTHER -> norm_coords

\* Variant: the scroll index is taken relative to the view's current slice.
ScrollSlices_Relative(view_type, i) ==
    [slices EXCEPT ![view_type] =
        (slices[view_type] + i) % dims[AxisOf(view_type)]]

\* set_slice_from_scroll: slices[view_type] = new_slice_index
ScrollSlices(view_type, i) == [slices EXCEPT ![view_type] = i]

\* set_slice_from_scroll(view_type, new_slice_index)
SetSliceFromScroll(view_type, i) ==
    /\ file_loaded
    /\ dims # NoDims
    /\ slices' = ScrollSlices(view_type, i)
    /\ norm_coords' = ScrollCoords(view_type, i)

\* Variant: the index stops at the ends instead of wrapping around.
WheelIndex_Clamped(view_type, direction) ==
    LET k == slices[view_type] + direction
        n == dims[AxisOf(view_type)]
    IN  IF k < 0 THEN 0 ELSE IF k > n - 1 THEN n - 1 ELSE k

\* wheelEvent: (current + direction) % max_slice
WheelIndex(view_type, direction) ==
    (slices[view_type] + direction) % dims[AxisOf(view_type)]

\* Variant: the cine step does not wrap around below slice 0.
CineIndex_NoWrap(view_type) == slices[view_type] - 1

\* Variant: cine playback runs through the slices in increasing order.
CineIndex_Forward(view_type) ==
    (slices[view_type] + 1) % dims[AxisOf(view_type)]

\* _cine_next_slice: (current - 1) % max_slice
CineIndex(view_type) == (slices[view_type] - 1) % dims[AxisOf(view_type)]

\* A view label receives mouse events only while its panel is shown.
Visible(view_type) == view_type \in OrthoViews \/ oblique_view_enabled

(* ---------------------- oblique extraction parameter ------------------- *)

\* cos and sin of a multiple of 90 degrees (taken exact).
CosDeg(a) == CASE a % 360 = 0 -> 1 [] a % 360 = 180 -> -1 [] OTHER -> 0
SinDeg(a) == CASE a % 360 = 90 -> 1 [] a % 360 = 270 -> -1 [] OTHER -> 0

\* Vectors are triples, matrices triples of rows.
Dot(a, b) == a[1] * b[1] + a[2] * b[2] + a[3] * b[3]
MatVec(m, x) == <<Dot(m[1], x), Dot(m[2], x), Dot(m[3], x)>>
Column(m, j) == <<m[1][j], m[2][j], m[3][j]>>
MatMul(a, b) ==
    <<(<<Dot(a[1], Column(b, 1)), Dot(a[1], Column(b, 2)), Dot(a[1], Column(b, 3))>>),
      (<<Dot(a[2], Column(b, 1)), Dot(a[2], Column(b, 2)), Dot(a[2], Column(b, 3))>>),
      (<<Dot(a[3], Column(b, 1)), Dot(a[3], Column(b, 2)), Dot(a[3], Column(b, 3))>>)>>

\* rot_x_mat and rot_y_mat for an angle theta in degrees
RotXMat(theta) ==
    <<(<<1, 0, 0>>),
      (<<0, CosDeg(theta), -SinDeg(theta)>>),
      (<<0, SinDeg(theta), CosDeg(theta)>>)>>
RotYMat(theta) ==
    <<(<<CosDeg(theta), 0, SinDeg(theta)>>),
      (<<0, 1, 0>>),
      (<<-SinDeg(theta), 0, CosDeg(theta)>>)>>

\* Variant: the projection takes the rotation angles as given.
ProjectionBasis_NotNegated(rx, ry) ==
    LET transform_mat == MatMul(RotYMat(ry), RotXMat(rx))
    IN  [u |-> MatVec(transform_mat, <<1, 0, 0>>),
         v |-> MatVec(transform_mat, <<0, 1, 0>>),
         w |-> MatVec(transform_mat, <<0, 0, 1>>)]

\* project_point_to_oblique_plane: u_vec, v_vec, w_vec from
\* transform_mat = rot_y_mat @ rot_x_mat with theta = deg2rad(-rot)
ProjectionBasis(rx, ry) ==
    LET transform_mat == MatMul(RotYMat(-ry), RotXMat(-rx))
    IN  [u |-> MatVec(transform_mat, <<1, 0, 0>>),
         v |-> MatVec(transform_mat, <<0, 1, 0>>),
         w |-> MatVec(transform_mat, <<0, 0, 1>>)]

\* Variant: the sampling grid takes the rotation angles as given.
ObliqueBasis_NotNegated(rx, ry) ==
    LET transform_mat == MatMul(RotYMat(ry), RotXMat(rx))
    IN  [u |-> MatVec(transform_mat, <<1, 0, 0>>),
         v |-> MatVec(transform_mat, <<0, 1, 0>>),
         w |-> MatVec(transform_mat, <<0, 0, 1>>)]

\* _get_oblique_slice: u_vec, v_vec, w_vec from
\* transform_mat = rot_y_mat @ rot_x_mat with theta = deg2rad(-rot)
ObliqueBasis(rx, ry) ==
    LET transform_mat == MatMul(RotYMat(-ry), RotXMat(-rx))
    IN  [u |-> MatVec(transform_mat, <<1, 0, 0>>),
         v |-> MatVec(transform_mat, <<0, 1, 0>>),
         w |-> MatVec(transform_mat, <<0, 0, 1>>)]

\* project_point_to_oblique_plane: w_vec, the normal of the plane
NormalVec(rx, ry) == ProjectionBasis(rx, ry).w

\* int(np.linalg.norm(dims))
SliceDim(d) == ISqrt(d[1] * d[1] + d[2] * d[2] + d[3] * d[3])

\* project_point_to_oblique_plane: depth_offset = dot(point - center, w),
\* as the rational <<numerator, denominator>> (not reduced).
DepthOffset(nc, d, rx, ry) ==
    LET den == nc.S[2] * nc.C[2] * nc.A[2]
        relx == 2 * nc.S[1] * (d[1] - 1) * nc.C[2] * nc.A[2] - d[1] * den
        rely == 2 * nc.C[1] * (d[2] - 1) * nc.S[2] * nc.A[2] - d[2] * den
        relz == 2 * (nc.A[2] - nc.A[1]) * (d[3] - 1) * nc.S[2] * nc.C[2]
                    - d[3] * den
        w == NormalVec(rx, ry)
    IN  <<w[1] * relx + w[2] * rely + w[3] * relz, 2 * den>>

\* get_slice_data, oblique branch: int(depth_offset + slice_dim / 2)
ObliqueSliceOffset(nc, d, rx, ry) ==
    LET dep == DepthOffset(nc, d, rx, ry)
    IN  IntTrunc(2 * dep[1] + SliceDim(d) * dep[2], 2 * dep[2])

\* _get_oblique_slice: slice_offset = slice_idx - slice_dim / 2, the signed
\* distance along w between the volume centre and the sampled plane, as the
\* rational <<numerator, 2>>.
PlaneOffset(slice_idx, d) == <<2 * slice_idx - SliceDim(d), 2>>

\* Variant: the oblique plane follows the stored oblique index.
SliceParam_StoredOblique(view_type, sl, nc, d, rx, ry) ==
    IF view_type = "oblique"
    THEN sl.oblique + (SliceDim(d) \div 2) - (d[3] \div 2)
    ELSE sl[view_type]

\* get_slice_data: the slice index (orthogonal views) or the oblique
\* offset handed to _get_oblique_slice, from the values update_view passes.
SliceParam(view_type, sl, nc, d, rx, ry) ==
    IF view_type = "oblique"
    THEN ObliqueSliceOffset(nc, d, rx, ry)
    ELSE sl[view_type]

(* --------------------------- crosshair display ------------------------- *)

\* Variant: the axial view is sent its two fractions in swapped order.
CrosshairOf_Swapped(view_type, nc) ==
    CASE view_type = "axial" -> <<nc.C, nc.S>>
      [] view_type = "coronal" -> <<nc.S, nc.A>>
      [] view_type = "sagittal" -> <<nc.C, nc.A>>
      [] OTHER -> <<Half, Half>>

\* update_view, sync_crosshair branch: the (norm_x, norm_y) handed to
\* label.set_normalized_crosshair
CrosshairOf(view_type, nc) ==
    CASE view_type = "axial" -> <<nc.S, nc.C>>
      [] view_type = "coronal" -> <<nc.S, nc.A>>
      [] view_type = "sagittal" -> <<nc.C, nc.A>>
      [] OTHER -> <<Half, Half>>

\* No label was sent a crosshair.
NoneEmitted == [v \in {} |-> <<Half, Half>>]

\* update_view(ui_title, view_type, sync_crosshair=True) for each view of
\* the set vs, in the coordinator state (fl, d, nc) and layout (obl): the
\* crosshair positions sent, by view. A hidden label is skipped and nothing
\* is drawn without a volume.
UpdateViews(vs, fl, d, nc, obl) ==
    IF ~fl \/ d = NoDims THEN NoneEmitted
    ELSE [v \in {w \in vs : w \in OrthoViews \/ obl} |-> CrosshairOf(v, nc)]

\* update_all_views / update_visible_views, run at the end of a handler, in
\* the state the handler leaves.
UpdateAllViews ==
    UpdateViews(Views, file_loaded', dims', norm_coords', oblique_view_enabled')

(* --------------------------- slice extraction -------------------------- *)

\* No extraction call under way, nothing returned yet.
NoCall == [fn |-> "none"]
NoRet == [kind |-> "none"]

\* Volumes handed to get_slice_data: shape (Nx, Ny, Nz), voxel (i, j, k)
\* holding i + 2j + 3k.
ExtractShapes == {<<2, MaxSide, 2>>, <<1, 1, 1>>}
Volume(shape) ==
    [shape |-> shape,
     vox |-> [p \in (0..(shape[1] - 1)) \X (0..(shape[2] - 1))
                        \X (0..(shape[3] - 1)) |-> p[1] + 2 * p[2] + 3 * p[3]]]

\* The affine's diagonal (affine[0,0], affine[1,1], affine[2,2]).
SpacingValues == (-1)..MaxSpacing
Affines == SpacingValues \X SpacingValues \X SpacingValues

\* Intensity windows (intensity_min, intensity_max), degenerate ones included.
Windows == (0..1) \X (0..MaxIntensity)

\* The arguments of a get_slice_data call for an orthogonal view.
GetSliceDataCalls ==
    {[fn |-> "get_slice_data", data |-> Volume(sh),
      slices |-> [v2 \in OrthoViews |-> IF v2 = v THEN k ELSE 0],
      view_type |-> v, affine |-> a,
      intensity_min |-> w[1], intensity_max |-> w[2]] :
        <<sh, v, k>> \in {t \in ExtractShapes \X OrthoViews \X (0..(MaxSide - 1)) :
                            t[3] < t[1][AxisOf(t[2])]},
        a \in Affines, w \in Windows}

\* data = None: no volume.
NoData == [shape |-> <<>>, vox |-> <<>>]

\* A view type get_slice_data has no branch for.
UnknownView == "segmentation"

\* A volume with no voxels: its first axis has length 0.
EmptyShape == <<0, 2, 2>>

\* Calls of get_slice_data that have no slice to show: no volume, an
\* unknown view type, an empty volume.
PlaceholderCalls ==
    {[fn |-> "get_slice_data", data |-> d,
      slices |-> [v2 \in OrthoViews |-> IF v2 = v THEN k ELSE 0],
      view_type |-> v, affine |-> <<1, 1, 1>>,
      intensity_min |-> w[1], intensity_max |-> w[2]] :
        <<d, v, k>> \in {t \in {NoData, Volume(EmptyShape), Volume(<<1, 1, 1>>)}
                                \X (OrthoViews \cup {UnknownView}) \X (0..1) :
                            \/ t[1] = NoData
                            \/ t[1] = Volume(EmptyShape) /\ t[2] \in OrthoViews
                            \/ t[2] = UnknownView /\ t[3] = 0},
        w \in Windows}

\* The side of the image returned when there is no slice to show.
PlaceholderSide == 10

\* Variant: the fallback image is empty.
Placeholder_Empty ==
    [kind |-> "placeholder", h |-> 0, w |-> 0,
     pix |-> [q \in {} |-> 0]]

\* np.zeros((10, 10), dtype=np.uint8)
Placeholder ==
    [kind |-> "placeholder", h |-> PlaceholderSide, w |-> PlaceholderSide,
     pix |-> [q \in (0..(PlaceholderSide - 1)) \X (0..(PlaceholderSide - 1)) |-> 0]]

\* The call ends in an exception instead of returning.
Raised(exc) == [kind |-> "raise", exc |-> exc]

\* get_slice_data, view branches: the slice cut from the volume, rows by
\* columns, values as rationals <<n, 1>>:
\*   axial    flipud(rot90(data[:, :, k]))  -> [r, c] = data[c, r, k]
\*   coronal  rot90(data[:, k, :])          -> [r, c] = data[c, k, Nz-1-r]
\*   sagittal rot90(data[k, :, :])          -> [r, c] = data[k, c, Nz-1-r]
RawSlice(data, view_type, sl) ==
    LET nx == data.shape[1]
        ny == data.shape[2]
        nz == data.shape[3]
        k == sl[view_type]
    IN  CASE view_type = "axial" ->
                [h |-> ny, w |-> nx,
                 val |-> [q \in (0..(ny - 1)) \X (0..(nx - 1)) |->
                            <<data.vox[<<q[2], q[1], k>>], 1>>]]
          [] view_type = "coronal" ->
                [h |-> nz, w |-> nx,
                 val |-> [q \in (0..(nz - 1)) \X (0..(nx - 1)) |->
                            <<data.vox[<<q[2], k, nz - 1 - q[1]>>], 1>>]]
          [] view_type = "sagittal" ->
                [h |-> nz, w |-> ny,
                 val |-> [q \in (0..(nz - 1)) \X (0..(ny - 1)) |->
                            <<data.vox[<<k, q[2], nz - 1 - q[1]>>], 1>>]]

\* get_slice_data, view branches: (x_spacing, y_spacing) of a view
InPlaneSpacing(affine, view_type) ==
    CASE view_type = "axial" -> <<affine[1], affine[2]>>
      [] view_type = "coronal" -> <<affine[1], affine[3]>>
      [] view_type = "sagittal" -> <<affine[2], affine[3]>>
      [] view_type = "oblique" -> <<1, 1>>

\* new_height = int(shape[0] * abs(y_spacing / x_spacing)), x_spacing # 0
NewHeight(h, x_spacing, y_spacing) == IntTrunc(h * Abs(y_spacing), Abs(x_spacing))

\* map_coordinates(order=1) at row linspace(0, h - 1, new_height)[r], column
\* c: linear interpolation between the two neighbouring rows.
Interpolate(raw, new_height, r, c) ==
    IF new_height = 1 THEN raw.val[<<0, c>>]
    ELSE LET den == new_height - 1
             pos == r * (raw.h - 1)
             f == pos \div den
             t == pos % den
         IN  IF t = 0 THEN raw.val[<<f, c>>]
             ELSE Frac((den - t) * raw.val[<<f, c>>][1]
                           + t * raw.val[<<f + 1, c>>][1], den)

\* Variant: a negative spacing skips the correction as a zero one does.
Resample_SkipsNegative(raw, x_spacing, y_spacing) ==
    IF x_spacing > 0 /\ y_spacing > 0 /\ NewHeight(raw.h, x_spacing, y_spacing) > 0
    THEN LET nh == NewHeight(raw.h, x_spacing, y_spacing)
         IN  [h |-> nh, w |-> raw.w,
              val |-> [q \in (0..(nh - 1)) \X (0..(raw.w - 1)) |->
                         Interpolate(raw, nh, q[1], q[2])]]
    ELSE raw

\* Variant: the corrected image drops the raw slice's last row.
Resample_DropsRow(raw, x_spacing, y_spacing) ==
    IF x_spacing # 0 /\ y_spacing # 0 /\ NewHeight(raw.h, x_spacing, y_spacing) > 1
    THEN LET nh == NewHeight(raw.h, x_spacing, y_spacing) - 1
         IN  [h |-> nh, w |-> raw.w,
              val |-> [q \in (0..(nh - 1)) \X (0..(raw.w - 1)) |->
                         Interpolate(raw, nh + 1, q[1], q[2])]]
    ELSE raw

\* get_slice_data, aspect-ratio step: taken when both spacings are non-zero
\* and the new height is positive.
Resample(raw, x_spacing, y_spacing) ==
    IF x_spacing # 0 /\ y_spacing # 0 /\ NewHeight(raw.h, x_spacing, y_spacing) > 0
    THEN LET nh == NewHeight(raw.h, x_spacing, y_spacing)
         IN  [h |-> nh, w |-> raw.w,
              val |-> [q \in (0..(nh - 1)) \X (0..(raw.w - 1)) |->
                         Interpolate(raw, nh, q[1], q[2])]]
    ELSE raw

\* Variant: a degenerate window paints the slice white.
WindowPixel_DegenerateWhite(v, lo, hi) ==
    IF hi > lo
    THEN LET n == IF v[1] < lo * v[2] THEN lo * v[2]
                  ELSE IF v[1] > hi * v[2] THEN hi * v[2] ELSE v[1]
         IN  IntTrunc(255 * (n - lo * v[2]), v[2] * (hi - lo))
    ELSE 255

\* get_slice_data, window step for one value v = <<n, d>>: clip to
\* [lo, hi], scale to 255 * (v - lo) / (hi - lo), astype(uint8) truncating;
\* zeros_like for a window with hi <= lo.
WindowPixel(v, lo, hi) ==
    IF hi > lo
    THEN LET n == IF v[1] < lo * v[2] THEN lo * v[2]
                  ELSE IF v[1] > hi * v[2] THEN hi * v[2] ELSE v[1]
         IN  IntTrunc(255 * (n - lo * v[2]), v[2] * (hi - lo))
    ELSE 0

\* Rotation angles handed to the oblique extraction: the right angles.
RightAngles == {0, 90, 180, 270}

\* norm_coords = None, the default of get_slice_data.
NoNormCoords == [S |-> <<0, 0>>, C |-> <<0, 0>>, A |-> <<0, 0>>]

\* Cursors handed to the oblique extraction.
ObliqueCursors ==
    {NoNormCoords, CenterCoords,
     [S |-> <<0, 1>>, C |-> <<1, 1>>, A |-> <<1, 4>>]}

\* The arguments of a get_slice_data call for the oblique view; dims is the
\* shape of data, as update_view passes it. The last ones are on a volume
\* with no voxels.
ObliqueCalls ==
    {[fn |-> "get_slice_data", data |-> Volume(sh), dims |-> sh,
      slices |-> [v2 \in OrthoViews |-> 0],
      view_type |-> "oblique", affine |-> <<1, 1, 1>>,
      intensity_min |-> w[1], intensity_max |-> w[2],
      rot_x_deg |-> rx, rot_y_deg |-> ry, norm_coords |-> nc] :
        sh \in ExtractShapes, rx \in RightAngles, ry \in RightAngles,
        nc \in ObliqueCursors, w \in Windows}
    \cup
    {[fn |-> "get_slice_data", data |-> Volume(EmptyShape), dims |-> EmptyShape,
      slices |-> [v2 \in OrthoViews |-> 0],
      view_type |-> "oblique", affine |-> <<1, 1, 1>>,
      intensity_min |-> w[1], intensity_max |-> w[2],
      rot_x_deg |-> 0, rot_y_deg |-> 0, norm_coords |-> NoNormCoords] :
        w \in Windows}

\* data.min(), for a volume with voxels
DataMin(data) ==
    CHOOSE m \in {data.vox[p] : p \in DOMAIN data.vox} :
        \A p \in DOMAIN data.vox : m <= data.vox[p]

\* One step of linear interpolation at a coordinate given as twice its
\* value: f0 at an integer, the mean of f0 and f1 half way; doubled.
Lerp2(odd, f0, f1) == IF odd THEN f0 + f1 ELSE 2 * f0

\* map_coordinates(data, point, order=1, mode='constant', cval=data.min())
\* at the point p2 / 2: cval outside [0, n - 1] on any axis, trilinear
\* interpolation of the neighbouring voxels inside.
SampleVolume(data, p2) ==
    IF \E a \in 1..3 : p2[a] < 0 \/ p2[a] > 2 * (data.shape[a] - 1)
    THEN <<DataMin(data), 1>>
    ELSE LET lx == p2[1] \div 2
             ly == p2[2] \div 2
             lz == p2[3] \div 2
             ox == p2[1] % 2 = 1
             oy == p2[2] % 2 = 1
             oz == p2[3] % 2 = 1
             AlongZ(i, j) == Lerp2(oz, data.vox[<<i, j, lz>>],
                                   IF oz THEN data.vox[<<i, j, lz + 1>>] ELSE 0)
             AlongY(i) == Lerp2(oy, AlongZ(i, ly), IF oy THEN AlongZ(i, ly + 1) ELSE 0)
         IN  Frac(Lerp2(ox, AlongY(lx), IF ox THEN AlongY(lx + 1) ELSE 0), 8)

\* _get_oblique_slice(data, rot_x_deg, rot_y_deg, slice_idx): the square of
\* side slice_dim sampled at center_voxel + xx * u_vec + yy * v_vec
\* + slice_offset * w_vec, with center_voxel = shape / 2, xx and yy running
\* over arange(-slice_dim / 2, slice_dim / 2) along columns and rows, and
\* slice_offset = slice_idx - slice_dim / 2.
ObliqueSlice(data, rx, ry, slice_idx) ==
    LET slice_dim == SliceDim(data.shape)
        b == ObliqueBasis(rx, ry)
        off == PlaneOffset(slice_idx, data.shape)[1]
        Point2(r, c) ==
            [a \in 1..3 |-> data.shape[a] + (2 * c - slice_dim) * b.u[a]
                                + (2 * r - slice_dim) * b.v[a] + off * b.w[a]]
    IN  [h |-> slice_dim, w |-> slice_dim,
         val |-> [q \in (0..(slice_dim - 1)) \X (0..(slice_dim - 1)) |->
                    SampleVolume(data, Point2(q[1], q[2]))]]

\* get_slice_data, oblique branch: the slice_offset handed to
\* _get_oblique_slice, int(depth_offset + slice_dim / 2) from the cursor or
\* slice_dim // 2 without one.
ObliqueCallOffset(c) ==
    IF c.norm_coords = NoNormCoords
    THEN SliceDim(c.dims) \div 2
    ELSE ObliqueSliceOffset(c.norm_coords, c.dims, c.rot_x_deg, c.rot_y_deg)

\* get_slice_data, view branches: slice_data of the call
SliceOf(c) ==
    IF c.view_type = "oblique"
    THEN ObliqueSlice(c.data, c.rot_x_deg, c.rot_y_deg, ObliqueCallOffset(c))
    ELSE RawSlice(c.data, c.view_type, c.slices)

\* get_slice_data up to the window step: the aspect-corrected slice
AspectCorrected(c) ==
    LET sp == InPlaneSpacing(c.affine, c.view_type)
    IN  Resample(SliceOf(c), sp[1], sp[2])

\* get_slice_data(data, dims, slices, affine, intensity_min, intensity_max,
\* view_type=...): the 8-bit image returned
get_slice_data(c) ==
    IF c.data = NoData THEN Placeholder
    ELSE IF c.view_type \notin Views THEN Placeholder
    ELSE IF c.view_type = "oblique" /\ DOMAIN c.data.vox = {}
    THEN Raised("ValueError")
    ELSE IF c.view_type \in OrthoViews
              /\ c.slices[c.view_type] >= c.data.shape[AxisOf(c.view_type)]
    THEN Raised("IndexError")
    ELSE IF SliceOf(c).h * SliceOf(c).w = 0
    THEN Placeholder
    ELSE LET res == AspectCorrected(c)
         IN  [kind |-> "image", h |-> res.h, w |-> res.w,
              pix |-> [q \in DOMAIN res.val |->
                         WindowPixel(res.val[q], c.intensity_min, c.intensity_max)]]

(* ---------------------------- segmentations ---------------------------- *)

\* The segmentation files picked in the dialog, each by the shape of its
\* array.
SegFileLists ==
    UNION {[1..n -> LoadShapes] : n \in 1..MaxSegFiles}

\* The shape of seg[:, :, start_idx : end_idx + 1] for an array of shape
\* sh: Python slicing stops at the end of the axis.
CropShape(sh, start_idx, end_idx) ==
    LET lo == IF start_idx < sh[3] THEN start_idx ELSE sh[3]
        hi == IF end_idx + 1 < sh[3] THEN end_idx + 1 ELSE sh[3]
    IN  <<sh[1], sh[2], IF hi > lo THEN hi - lo ELSE 0>>

\* apply_slice_crop: every array of segmentation_data_list is cut, in its
\* current extent, to start_idx..end_idx.
CropSegmentations(start_idx, end_idx) ==
    [i \in DOMAIN segmentation_data_list |->
        CropShape(segmentation_data_list[i], start_idx, end_idx)]

(* ------------------------------ history -------------------------------- *)

\* The last handled event with its arguments (x, y rationals <<n, d>>).
Ev(op, view, x, y) == [op |-> op, view |-> view, x |-> x, y |-> y]
NoArg == <<0, 1>>

NumCine == Cardinality({v \in Views : cine_active[v]})

(* ------------------------------- state --------------------------------- *)

(* --------------------------- intensity window -------------------------- *)

\* Mouse moves of a contrast drag are at most MaxDrag pixels in x and in y.
MaxDrag == 1

\* Contrast drags are followed while the window stays in -MaxWindow..MaxWindow.
MaxWindow == 6

\* The window of a new viewer.
DefaultWindow == <<0, 255>>

\* The window the loader computes for a volume of the values 0 and 1.
BinaryWindow == <<0, 1>>

\* The window load_nifti_data / load_dicom_data return when they fail.
FailedWindow == <<0, 1>>

\* The windows the loader computes for the volumes of the model: the lowest
\* and the highest intensity, the lowest below the highest.
LoadWindows ==
    {win \in (0..MaxIntensity) \X (0..MaxIntensity) : win[1] < win[2]}

Drags == (-MaxDrag)..MaxDrag

\* open_nifti_file: the window the loader returned becomes the current and
\* the original window.
LoadWindow(win) ==
    /\ intensity_min' = win[1]
    /\ intensity_max' = win[2]
    /\ original_intensity_min' = win[1]
    /\ original_intensity_max' = win[2]

\* reset_contrast
reset_contrast ==
    /\ intensity_min' = original_intensity_min
    /\ intensity_max' = original_intensity_max
    /\ UNCHANGED <<original_intensity_min, original_intensity_max>>

(* ------------------------- segmentation manager ------------------------ *)

\* max_cache_slices, the capacity of the slice cache and of the merged cache.
MaxCacheSlices == 2

\* The most files add_file puts into one manager.
MaxManagerFiles == 1

\* The shape of the segmentation volumes of the model.
SegShape == <<2, 1, 1>>

\* A segmentation volume is the set of its voxels above 0.5.
VolA == {<<0, 0, 0>>}
VolB == {<<1, 0, 0>>}
ManagerVolumes == {VolA, VolB}

Axes == {"axial", "coronal", "sagittal"}

\* The axis names and slice indices a request is made with.
AxisNames == Axes \cup {"oblique"}
SliceIndices == (-1)..2

\* data[::-1, :, :], the flip of the first axis applied to a loaded volume.
FlipX(vol) == {<<SegShape[1] - 1 - v[1], v[2], v[3]>> : v \in vol}

\* vol[:, :, i], vol[:, i, :] and vol[i, :, :]
Plane(vol, axis, slice_idx) ==
    CASE axis = "axial" ->
             {<<v[1], v[2]>> : v \in {u \in vol : u[3] = slice_idx}}
      [] axis = "coronal" ->
             {<<v[1], v[3]>> : v \in {u \in vol : u[2] = slice_idx}}
      [] axis = "sagittal" ->
             {<<v[2], v[3]>> : v \in {u \in vol : u[1] = slice_idx}}

\* The length of the first axis of a plane of the volume.
PlaneRows(axis) == IF axis = "sagittal" THEN SegShape[2] ELSE SegShape[1]

\* slice_2d[::-1, :, ...]
FlipRows(plane, axis) == {<<PlaneRows(axis) - 1 - q[1], q[2]>> : q \in plane}

\* The slice index is one of the axis of the volume.
InRange(axis, slice_idx) ==
    slice_idx >= 0 /\ slice_idx < SegShape[AxisOf(axis)]

ReturnedNone == [kind |-> "None"]
ReturnedSlice(plane) == [kind |-> "slice", plane |-> plane]

\* The keys of an OrderedDict, oldest first.
Keys(od) == [i \in DOMAIN od |-> od[i].key]
KeySet(od) == {od[i].key : i \in DOMAIN od}

\* od[key] of a key of the OrderedDict
ValueOf(od, key) == od[CHOOSE i \in DOMAIN od : od[i].key = key].value

\* Variant: a hit leaves the entry where it was inserted.
move_to_end_Stays(od, key) == od

\* od.move_to_end(key)
move_to_end(od, key) ==
    LET i == CHOOSE j \in DOMAIN od : od[j].key = key
    IN  SelectSeq(od, LAMBDA e : e.key # key) \o <<od[i]>>

\* Variant: nothing is evicted.
Insert_NoEviction(od, key, value, capacity) ==
    Append(od, [key |-> key, value |-> value])

\* od[key] = value for a key not in the OrderedDict, then popitem(last=False)
\* if it holds more than the capacity.
Insert(od, key, value, capacity) ==
    LET added == Append(od, [key |-> key, value |-> value])
    IN  IF Len(added) > capacity THEN Tail(added) ELSE added

\* No merged volume (None).
NoMerged == [built |-> FALSE, vol |-> {}]

\* The manager after clear() and after __init__.
EmptyManager ==
    [nifti_objs |-> <<>>, slice_cache |-> <<>>,
     merged_volume |-> NoMerged, merged_cache |-> <<>>]

\* The request names a file of the manager, one of the three axes and a
\* slice of that axis.
ValidKey(nifti_objs, file_idx, axis, slice_idx) ==
    /\ file_idx >= 0 /\ file_idx < Len(nifti_objs)
    /\ axis \in Axes
    /\ InRange(axis, slice_idx)

NoSegCall == [fn |-> "none", key |-> <<>>, hit |-> FALSE, ret |-> ReturnedNone]

\* The record of a call: its key if the request was valid, <<>> if not,
\* whether the cache held the key, and the value returned.
SegCall(fn, valid, key, hit, returned) ==
    [fn |-> fn, key |-> IF valid THEN key ELSE <<>>, hit |-> hit,
     ret |-> returned]

\* The keys of the last distinct slices get_slice returned, the last
\* returned last, as many as the cache has room for.
Touch(keys, key) ==
    LET moved == SelectSeq(keys, LAMBDA k : k # key) \o <<key>>
    IN  IF Len(moved) > MaxCacheSlices THEN Tail(moved) ELSE moved

(* ----------------------- 3D viewer background load ---------------------- *)

\* The most background loads one behaviour starts.
MaxLoads == 3

\* The segmentation files on disk; "c" is a file nib.load cannot read.
SegFiles == {"a", "b", "c"}

ReadableFiles == {"a", "b"}

\* The voxels at which each readable file is above 0.5 (its binary mask).
BinaryMask == [a |-> {1, 2}, b |-> {2, 3}]

\* The file lists a load may be started with: visible files, each once.
FilesToLoad ==
    {<<f>> : f \in SegFiles}
        \cup {fs \in SegFiles \X SegFiles : fs[1] # fs[2]}

\* Modification times range over 0..MaxMtime.
MaxMtime == 1

\* The most merged volumes saved to the disk cache in one behaviour.
MaxSaves == 2

\* The position of a path in the order sorted() puts the paths in.
PathRank == [a |-> 1, b |-> 2, c |-> 3]

\* Variant: the paths are taken in the order given.
generate_cache_key_Unsorted(files) ==
    [i \in DOMAIN files |-> <<files[i], mtime[files[i]]>>]

\* The cache key of a file list: the string of "path:mtime;" over the
\* sorted paths, here the sequence of the pairs.  The md5 digest of the
\* string is taken to be different for different strings.
generate_cache_key(files) ==
    LET sorted == SortSeq(files, LAMBDA x, y : PathRank[x] < PathRank[y])
    IN  [i \in DOMAIN sorted |-> <<sorted[i], mtime[sorted[i]]>>]

\* The file lists the disk cache is asked about.
CacheFileLists == {<<"a">>, <<"b">>, <<"a", "b">>, <<"b", "a">>}

\* The merged volumes saved.
CacheVolumes == {{1}, {2, 3}}

NoDiskCall == [fn |-> "none"]

\* A file set with the modification times its files have now.
Snapshot(files) ==
    <<{files[i] : i \in DOMAIN files},
      [f \in {files[i] : i \in DOMAIN files} |-> mtime[f]]>>

\* No worker thread.
NoWorker ==
    [pc |-> "none", files_to_load |-> <<>>, idx |-> 0, cancelled |-> FALSE,
     seg_manager |-> FALSE, cache |-> FALSE, merged_from_cache |-> FALSE]

\* A worker as its constructor leaves it, about to run.
MeshLoadWorker(files, seg_manager, with_cache) ==
    [pc |-> "run", files_to_load |-> files, idx |-> 0, cancelled |-> FALSE,
     seg_manager |-> seg_manager, cache |-> with_cache,
     merged_from_cache |-> FALSE]

\* The worker thread has not returned from run.
Running(w) == w.pc \in {"run", "loop"}

\* The end of run: the merged volume is saved and finished is emitted.
RunEnd(w) ==
    /\ cache' = IF w.seg_manager /\ ~w.cancelled /\ ~w.merged_from_cache
                    /\ w.cache
                 THEN [cache EXCEPT !.merged =
                          (generate_cache_key(w.files_to_load)
                               :> merged_volume) @@ @]
                 ELSE cache
    /\ load_worker' = [w EXCEPT !.pc = "returned"]
    /\ viewer3d' = [viewer3d EXCEPT !.queued_finished = @ + 1]
    /\ UNCHANGED merged_volume

TypeOK ==
    /\ file_loaded \in BOOLEAN
    /\ dims = NoDims \/ (Len(dims) = 3 /\ \A k \in 1..3 : dims[k] \in Nat \ {0})
    /\ original_dims = NoDims \/ Len(original_dims) = 3
    /\ DOMAIN norm_coords = {"S", "C", "A"}
    /\ DOMAIN slices = Views
    /\ tool \in Tools
    /\ cine_active \in [Views -> BOOLEAN]
    /\ oblique_view_enabled \in BOOLEAN
    /\ DOMAIN emitted \subseteq Views
    /\ DOMAIN last_event = {"op", "view", "x", "y"}
    /\ \A i \in DOMAIN segmentation_data_list : Len(segmentation_data_list[i]) = 3
    /\ call.fn \in {"none", "get_slice_data"}
    /\ ret.kind \in {"none", "image", "placeholder", "raise"}
    /\ intensity_min \in Int /\ intensity_max \in Int
    /\ intensity_min <= intensity_max
    /\ original_intensity_min < original_intensity_max
    /\ Len(segmentation_manager.nifti_objs) <= MaxManagerFiles
    /\ \A i \in DOMAIN segmentation_manager.nifti_objs :
           segmentation_manager.nifti_objs[i] \in ManagerVolumes
    /\ segmentation_manager.merged_volume.built \in BOOLEAN
    /\ seg_call.fn \in {"none", "get_slice", "get_merged_slice"}
    /\ seg_call.ret.kind \in {"None", "slice"}
    /\ Len(recent_keys) <= MaxCacheSlices
    /\ load_worker.pc \in {"none", "run", "loop", "returned"}
    /\ load_worker.idx \in 0..Len(load_worker.files_to_load)
    /\ merged_volume \subseteq {1, 2, 3}
    /\ \A key \in DOMAIN cache.merged \cup {m[1] : m \in cache.meshes} :
           \A i \in DOMAIN key :
               key[i][1] \in SegFiles /\ key[i][2] \in 0..MaxMtime
    /\ \A m \in cache.meshes : m[2] \in SegFiles
    /\ mtime \in [SegFiles -> 0..MaxMtime]
    /\ disk_call.fn \in {"none", "save_merged_volume", "load_merged_volume",
                          "touch"}
    /\ viewer3d.load_progress_dialog \in BOOLEAN
    /\ viewer3d.waiting \in BOOLEAN
    /\ viewer3d.queued_finished \in Nat
    /\ viewer3d.loading_finished \in Nat
    /\ viewer3d.loads \in 0..MaxLoads

\* MPRViewer.__init__
InitViewer ==
    /\ file_loaded = FALSE
    /\ dims = NoDims
    /\ original_dims = NoDims
    /\ norm_coords = CenterCoords
    /\ slices = [axial |-> 0, coronal |-> 0, sagittal |-> 0, oblique |-> 0]
    /\ rot_x_deg = 0
    /\ rot_y_deg = 0
    /\ tool = crosshair_tool
    /\ cine_active = [v \in Views |-> FALSE]
    /\ oblique_view_enabled = FALSE
    /\ emitted = NoneEmitted
    /\ last_event = Ev("init", "-", NoArg, NoArg)
    /\ segmentation_data_list = <<>>
    /\ intensity_min = DefaultWindow[1]
    /\ intensity_max = DefaultWindow[2]
    /\ original_intensity_min = DefaultWindow[1]
    /\ original_intensity_max = DefaultWindow[2]

\* SegmentationViewer3D.__init__, an empty cache directory and a segmentation
\* manager without a merged volume.
InitLoad3D ==
    /\ load_worker = NoWorker
    /\ merged_volume = {}
    /\ cache = [merged |-> <<>>, meshes |-> {}]
    /\ viewer3d = [load_progress_dialog |-> FALSE, waiting |-> FALSE,
                   queued_finished |-> 0, loading_finished |-> 0, loads |-> 0]

\* SegmentationManager.__init__
InitSegManager ==
    /\ segmentation_manager = EmptyManager
    /\ seg_call = NoSegCall
    /\ recent_keys = <<>>

\* The files as they lie on disk, no call of the disk cache made.
InitDisk ==
    /\ mtime = [f \in SegFiles |-> 0]
    /\ disk_call = NoDiskCall
    /\ saved = <<>>

\* The viewer after construction, no extraction call under way.
Init ==
    /\ InitViewer
    /\ InitLoad3D
    /\ InitSegManager
    /\ InitDisk
    /\ call = NoCall
    /\ ret = NoRet

(* ------------------------------ actions -------------------------------- *)

\* Variant: a load re-centres the cursor but keeps the plane's rotation.
OpenFile_KeepsRotation(shape) ==
    /\ last_event' = Ev("open", "-", NoArg, NoArg)
    /\ file_loaded' = TRUE
    /\ dims' = shape
    /\ original_dims' = shape
    /\ norm_coords' = CenterCoords
    /\ slices' = CenterSlices(shape, slices)
    /\ oblique_view_enabled' = FALSE
    /\ UNCHANGED <<rot_x_deg, rot_y_deg, tool, cine_active>>
    /\ emitted' = UpdateAllViews
    /\ UNCHANGED <<call, ret, segmentation_data_list>>
    /\ UNCHANGED load3d_vars
    /\ UNCHANGED segman_vars
    /\ UNCHANGED disk_vars
    /\ LoadWindow(BinaryWindow)

\* open_nifti_file / open_dicom_folder, the loader returning a volume of
\* the given shape and the display window win = <<min, max>>.
OpenVolume(shape, win) ==
    /\ last_event' = Ev("open", "-", NoArg, NoArg)
    /\ file_loaded' = TRUE
    /\ dims' = shape
    /\ original_dims' = shape
    /\ norm_coords' = CenterCoords
    /\ slices' = CenterSlices(shape, slices)
    /\ rot_x_deg' = 0
    /\ rot_y_deg' = 0
    /\ oblique_view_enabled' = FALSE
    /\ UNCHANGED <<tool, cine_active>>
    /\ emitted' = UpdateAllViews
    /\ UNCHANGED <<call, ret, segmentation_data_list>>
    /\ UNCHANGED load3d_vars
    /\ UNCHANGED segman_vars
    /\ UNCHANGED disk_vars
    /\ LoadWindow(win)

\* open_nifti_file / open_dicom_folder, the loader returning a binary volume
\* (lowest intensity 0, highest 1).
OpenFile(shape) == OpenVolume(shape, BinaryWindow)

\* open_nifti_file / open_dicom_folder, the loader returning None: the
\* handler marks the file loaded, then data.copy() raises and is caught.
OpenFileFailed ==
    /\ last_event' = Ev("open_failed", "-", NoArg, NoArg)
    /\ file_loaded' = TRUE
    /\ dims' = NoDims
    /\ UNCHANGED <<original_dims, norm_coords, slices, rot_x_deg, rot_y_deg,
                   tool, cine_active, oblique_view_enabled>>
    /\ emitted' = NoneEmitted
    /\ UNCHANGED <<call, ret, segmentation_data_list>>
    /\ UNCHANGED load3d_vars
    /\ UNCHANGED segman_vars
    /\ UNCHANGED disk_vars
    /\ LoadWindow(FailedWindow)

\* Checking another button of the exclusive tool group.
\* handle_cine_button_toggle: the clicked signal of the cine button stops
\* every view's playback when it reports the button unchecked.
handle_cine_button_toggle(checked) ==
    IF ~checked THEN [v \in Views |-> FALSE] ELSE cine_active

\* A click on an unchecked tool button of the exclusive group checks it and
\* unchecks the others; only the clicked button emits clicked, with its new
\* state, which is checked.
SelectTool(t) ==
    /\ last_event' = Ev("tool", "-", NoArg, NoArg)
    /\ tool # t
    /\ tool' = t
    /\ cine_active' = IF t = cine_tool
                      THEN handle_cine_button_toggle(TRUE)
                      ELSE cine_active
    /\ UNCHANGED <<file_loaded, dims, original_dims, norm_coords, slices,
                   rot_x_deg, rot_y_deg, oblique_view_enabled>>
    /\ emitted' = IF t = rotate_tool /\ oblique_view_enabled
                  THEN UpdateViews({"coronal"}, file_loaded, dims, norm_coords,
                                   oblique_view_enabled)
                  ELSE NoneEmitted
    /\ UNCHANGED <<call, ret, segmentation_data_list>>
    /\ UNCHANGED load3d_vars
    /\ UNCHANGED segman_vars
    /\ UNCHANGED disk_vars
    /\ UNCHANGED window_vars

\* mousePressEvent / mouseMoveEvent with the crosshair tool:
\* _update_crosshair -> set_slice_from_crosshair(source_view, norm_x, norm_y)
Click(source_view, norm_x, norm_y) ==
    /\ last_event' = Ev("click", source_view, norm_x, norm_y)
    /\ tool = crosshair_tool
    /\ Visible(source_view)
    /\ file_loaded
    /\ dims # NoDims
    /\ LET x == Clamp01(norm_x)
           y == Clamp01(norm_y)
       IN  /\ norm_coords' = ClickCoords(source_view, x, y)
           /\ slices' = ClickSlices(source_view, x, y)
    /\ UNCHANGED <<file_loaded, dims, original_dims, rot_x_deg, rot_y_deg,
                   tool, cine_active, oblique_view_enabled>>
    /\ emitted' = UpdateAllViews
    /\ UNCHANGED <<call, ret, segmentation_data_list>>
    /\ UNCHANGED load3d_vars
    /\ UNCHANGED segman_vars
    /\ UNCHANGED disk_vars
    /\ UNCHANGED window_vars

\* wheelEvent with the slide/crosshair tool, direction in {+1, -1}
Wheel(view_type, direction) ==
    /\ tool = crosshair_tool
    /\ Visible(view_type)
    /\ file_loaded
    /\ dims # NoDims
    /\ last_event' = Ev("wheel", view_type, <<direction, 1>>,
                         <<WheelIndex(view_type, direction), 1>>)
    /\ SetSliceFromScroll(view_type, WheelIndex(view_type, direction))
    /\ UNCHANGED <<file_loaded, dims, original_dims, rot_x_deg, rot_y_deg,
                   tool, cine_active, oblique_view_enabled>>
    /\ emitted' = IF view_type = "oblique" THEN NoneEmitted ELSE UpdateAllViews
    /\ UNCHANGED <<call, ret, segmentation_data_list>>
    /\ UNCHANGED load3d_vars
    /\ UNCHANGED segman_vars
    /\ UNCHANGED disk_vars
    /\ UNCHANGED window_vars

\* wheelEvent with the slide/crosshair tool and no dims (nothing loaded
\* yet, or a failed load): parent_viewer.dims[max_dim_index] raises
\* TypeError before anything is changed.
WheelNoVolume(view_type) ==
    /\ tool = crosshair_tool
    /\ Visible(view_type)
    /\ dims = NoDims
    /\ last_event' = Ev("wheel_raised", "-", NoArg, NoArg)
    /\ UNCHANGED <<file_loaded, dims, original_dims, norm_coords, slices,
                   rot_x_deg, rot_y_deg, tool, cine_active,
                   oblique_view_enabled>>
    /\ emitted' = NoneEmitted
    /\ UNCHANGED <<call, ret, segmentation_data_list>>
    /\ UNCHANGED load3d_vars
    /\ UNCHANGED segman_vars
    /\ UNCHANGED disk_vars
    /\ UNCHANGED window_vars

\* mousePressEvent with the cine tool: start_cine / stop_cine of that view
ToggleCine(view_type) ==
    /\ last_event' = Ev("cine_toggle", view_type, NoArg, NoArg)
    /\ tool = cine_tool
    /\ Visible(view_type)
    /\ cine_active[view_type] \/ NumCine < MaxCine
    /\ cine_active' = [cine_active EXCEPT ![view_type] = ~cine_active[view_type]]
    /\ UNCHANGED <<file_loaded, dims, original_dims, norm_coords, slices,
                   rot_x_deg, rot_y_deg, tool, oblique_view_enabled>>
    /\ emitted' = NoneEmitted
    /\ UNCHANGED <<call, ret, segmentation_data_list>>
    /\ UNCHANGED load3d_vars
    /\ UNCHANGED segman_vars
    /\ UNCHANGED disk_vars
    /\ UNCHANGED window_vars

\* cine_timer timeout -> _cine_next_slice
CineTick(view_type) ==
    /\ cine_active[view_type]
    /\ file_loaded
    /\ dims # NoDims
    /\ last_event' = Ev("cine_tick", view_type, <<-1, 1>>,
                         <<CineIndex(view_type), 1>>)
    /\ SetSliceFromScroll(view_type, CineIndex(view_type))
    /\ UNCHANGED <<file_loaded, dims, original_dims, rot_x_deg, rot_y_deg,
                   tool, cine_active, oblique_view_enabled>>
    /\ emitted' = IF view_type = "oblique" THEN NoneEmitted ELSE UpdateAllViews
    /\ UNCHANGED <<call, ret, segmentation_data_list>>
    /\ UNCHANGED load3d_vars
    /\ UNCHANGED segman_vars
    /\ UNCHANGED disk_vars
    /\ UNCHANGED window_vars

\* cine_timer timeout -> _cine_next_slice after a failed load: file_loaded
\* passes the guard and parent_viewer.dims[max_dim_index] raises TypeError.
CineTickNoVolume(view_type) ==
    /\ cine_active[view_type]
    /\ file_loaded
    /\ dims = NoDims
    /\ last_event' = Ev("cine_raised", "-", NoArg, NoArg)
    /\ UNCHANGED <<file_loaded, dims, original_dims, norm_coords, slices,
                   rot_x_deg, rot_y_deg, tool, cine_active,
                   oblique_view_enabled>>
    /\ emitted' = NoneEmitted
    /\ UNCHANGED <<call, ret, segmentation_data_list>>
    /\ UNCHANGED load3d_vars
    /\ UNCHANGED segman_vars
    /\ UNCHANGED disk_vars
    /\ UNCHANGED window_vars

\* Variant: the reset button restores cursor, slices and rotation together.
ResetClicked_Everything ==
    /\ last_event' = Ev("reset", "-", NoArg, NoArg)
    /\ file_loaded
    /\ norm_coords' = CenterCoords
    /\ slices' = CenterSlices(dims, slices)
    /\ rot_x_deg' = 0
    /\ rot_y_deg' = 0
    /\ UNCHANGED <<file_loaded, dims, original_dims, tool, cine_active,
                   oblique_view_enabled>>
    /\ emitted' = UpdateAllViews
    /\ UNCHANGED <<call, ret, segmentation_data_list>>
    /\ UNCHANGED load3d_vars
    /\ UNCHANGED segman_vars
    /\ UNCHANGED disk_vars
    /\ reset_contrast

\* on_reset_clicked: resets what belongs to the checked tool
ResetClicked ==
    /\ last_event' = Ev("reset", "-", NoArg, NoArg)
    /\ file_loaded
    /\ CASE tool = crosshair_tool ->
               /\ norm_coords' = CenterCoords
               /\ slices' = CenterSlices(dims, slices)
               /\ UNCHANGED <<rot_x_deg, rot_y_deg>>
         [] tool = rotate_tool ->
               /\ rot_x_deg' = 0
               /\ rot_y_deg' = 0
               /\ UNCHANGED <<norm_coords, slices>>
         [] OTHER ->
               UNCHANGED <<norm_coords, slices, rot_x_deg, rot_y_deg>>
    /\ UNCHANGED <<file_loaded, dims, original_dims, tool, cine_active,
                   oblique_view_enabled>>
    /\ emitted' = UpdateAllViews
    /\ UNCHANGED <<call, ret, segmentation_data_list>>
    /\ UNCHANGED load3d_vars
    /\ UNCHANGED segman_vars
    /\ UNCHANGED disk_vars
    /\ IF tool = contrast_tool THEN reset_contrast ELSE UNCHANGED window_vars

\* Variant: a crop also puts the oblique plane back to its default angles.
SliceCrop_ResetsRotation(start, end) ==
    /\ last_event' = Ev("crop", "-", <<start, 1>>, <<end, 1>>)
    /\ file_loaded
    /\ original_dims # NoDims
    /\ start < end
    /\ end <= original_dims[3]
    /\ dims' = <<original_dims[1], original_dims[2], end - start + 1>>
    /\ norm_coords' = CenterCoords
    /\ slices' = CenterSlices(dims', slices)
    /\ rot_x_deg' = 0
    /\ rot_y_deg' = 0
    /\ UNCHANGED <<file_loaded, original_dims, tool, cine_active,
                   oblique_view_enabled>>
    /\ emitted' = UpdateAllViews
    /\ UNCHANGED <<call, ret>>
    /\ UNCHANGED load3d_vars
    /\ UNCHANGED segman_vars
    /\ UNCHANGED disk_vars
    /\ UNCHANGED window_vars
    /\ segmentation_data_list' = CropSegmentations(start - 1, end - 1)

\* show_slice_crop_dialog -> apply_slice_crop(start - 1, end - 1),
\* start and end being the dialog's 1-based values, which its spin boxes
\* keep within 1..total_slices of the original volume
SliceCrop(start, end) ==
    /\ last_event' = Ev("crop", "-", <<start, 1>>, <<end, 1>>)
    /\ file_loaded
    /\ original_dims # NoDims
    /\ start < end
    /\ end <= original_dims[3]
    /\ dims' = <<original_dims[1], original_dims[2], end - start + 1>>
    /\ norm_coords' = CenterCoords
    /\ slices' = CenterSlices(dims', slices)
    /\ UNCHANGED <<file_loaded, original_dims, rot_x_deg, rot_y_deg, tool,
                   cine_active, oblique_view_enabled>>
    /\ emitted' = UpdateAllViews
    /\ UNCHANGED <<call, ret>>
    /\ UNCHANGED load3d_vars
    /\ UNCHANGED segman_vars
    /\ UNCHANGED disk_vars
    /\ UNCHANGED window_vars
    /\ segmentation_data_list' = CropSegmentations(start - 1, end - 1)

\* load_segmentation_files: the list is emptied, then each picked file
\* whose array has the shape of data is appended; without data the
\* comparison raises and the file is skipped.
LoadSegmentation(files) ==
    /\ last_event' = Ev("load_seg", "-", <<Len(files), 1>>, NoArg)
    /\ file_loaded
    /\ LET Matches(sh) == dims # NoDims /\ sh = dims
       IN  segmentation_data_list' = SelectSeq(files, Matches)
    /\ UNCHANGED <<file_loaded, dims, original_dims, norm_coords, slices,
                   rot_x_deg, rot_y_deg, tool, cine_active,
                   oblique_view_enabled>>
    /\ emitted' = IF segmentation_data_list' # <<>> THEN UpdateAllViews
                  ELSE NoneEmitted
    /\ UNCHANGED <<call, ret>>
    /\ UNCHANGED load3d_vars
    /\ UNCHANGED segman_vars
    /\ UNCHANGED disk_vars
    /\ UNCHANGED window_vars

\* delete_segmentation_files, confirmed with Yes
DeleteSegmentation ==
    /\ last_event' = Ev("delete_seg", "-", NoArg, NoArg)
    /\ segmentation_data_list # <<>>
    /\ segmentation_data_list' = <<>>
    /\ UNCHANGED <<file_loaded, dims, original_dims, norm_coords, slices,
                   rot_x_deg, rot_y_deg, tool, cine_active,
                   oblique_view_enabled>>
    /\ emitted' = UpdateAllViews
    /\ UNCHANGED <<call, ret>>
    /\ UNCHANGED load3d_vars
    /\ UNCHANGED segman_vars
    /\ UNCHANGED disk_vars
    /\ UNCHANGED window_vars

\* Variant: the pointer angle is added to the plane's current angle.
RotateDrag_Additive(angle) ==
    /\ last_event' = Ev("rotate", "-", <<angle, 1>>, <<rot_y_deg, 1>>)
    /\ tool = rotate_tool
    /\ oblique_view_enabled
    /\ file_loaded
    /\ dims # NoDims
    /\ rot_y_deg' = (rot_y_deg + angle) % 360
    /\ UNCHANGED <<file_loaded, dims, original_dims, norm_coords, slices,
                   rot_x_deg, tool, cine_active, oblique_view_enabled>>
    /\ emitted' = NoneEmitted
    /\ UNCHANGED <<call, ret, segmentation_data_list>>
    /\ UNCHANGED load3d_vars
    /\ UNCHANGED segman_vars
    /\ UNCHANGED disk_vars
    /\ UNCHANGED window_vars

\* mouseMoveEvent while the oblique axis handle is dragged: angle is the
\* pointer's angle about the crosshair, atan2 brought into [0, 360); the
\* event record keeps the angle the plane had before (y).
RotateDrag(angle) ==
    /\ last_event' = Ev("rotate", "-", <<angle, 1>>, <<rot_y_deg, 1>>)
    /\ tool = rotate_tool
    /\ oblique_view_enabled
    /\ file_loaded
    /\ dims # NoDims
    /\ rot_y_deg' = angle
    /\ UNCHANGED <<file_loaded, dims, original_dims, norm_coords, slices,
                   rot_x_deg, tool, cine_active, oblique_view_enabled>>
    /\ emitted' = NoneEmitted
    /\ UNCHANGED <<call, ret, segmentation_data_list>>
    /\ UNCHANGED load3d_vars
    /\ UNCHANGED segman_vars
    /\ UNCHANGED disk_vars
    /\ UNCHANGED window_vars

\* wheelEvent with the zoom tool -> change_global_zoom(delta): it rescales
\* global_zoom_factor and the labels' pan offsets, which are display state
\* outside the coordinator; none of the coordinator's fields is written.
ZoomWheel(view_type, direction) ==
    /\ last_event' = Ev("zoom", "-", <<direction, 1>>, NoArg)
    /\ tool = zoom_tool
    /\ Visible(view_type)
    /\ file_loaded
    /\ UNCHANGED <<file_loaded, dims, original_dims, norm_coords, slices,
                   rot_x_deg, rot_y_deg, tool, cine_active,
                   oblique_view_enabled>>
    /\ emitted' = NoneEmitted
    /\ UNCHANGED <<call, ret, segmentation_data_list>>
    /\ UNCHANGED load3d_vars
    /\ UNCHANGED segman_vars
    /\ UNCHANGED disk_vars
    /\ UNCHANGED window_vars

\* mouseMoveEvent with the contrast tool, the mouse moved by (dx, dy) since
\* the last position: the new <<intensity_min, intensity_max>>.  The level
\* (max + min) / 2 is kept doubled, so that the halves stay exact.
DragWindow(lo, hi, dx, dy) ==
    LET window == hi - lo
        level2 == hi + lo
        new_window == IF 1 >= window + dx * 2 THEN 1 ELSE window + dx * 2
        new_level2 == level2 + (-dy * 2) * 2
    IN  <<IntTrunc(new_level2 - new_window, 2),
          IntTrunc(new_level2 + new_window, 2)>>

\* mousePressEvent / mouseMoveEvent with the contrast tool: the drag by
\* (dx, dy) rewrites the intensity window (intensity_min, intensity_max) and
\* redraws; none of the coordinator's fields is written.
ContrastMove(view_type, dx, dy) ==
    /\ last_event' = Ev("contrast", "-", NoArg, NoArg)
    /\ tool = contrast_tool
    /\ Visible(view_type)
    /\ LET new == DragWindow(intensity_min, intensity_max, dx, dy)
       IN  /\ new[1] >= -MaxWindow
           /\ new[2] <= MaxWindow
           /\ intensity_min' = new[1]
           /\ intensity_max' = new[2]
    /\ UNCHANGED <<original_intensity_min, original_intensity_max>>
    /\ UNCHANGED <<file_loaded, dims, original_dims, norm_coords, slices,
                   rot_x_deg, rot_y_deg, tool, cine_active,
                   oblique_view_enabled>>
    /\ emitted' = UpdateAllViews
    /\ UNCHANGED <<call, ret, segmentation_data_list>>
    /\ UNCHANGED load3d_vars
    /\ UNCHANGED segman_vars
    /\ UNCHANGED disk_vars

\* mousePressEvent / mouseMoveEvent with the contrast tool, the mouse not
\* displaced: the window is recomputed from itself and the views redrawn.
ContrastDrag(view_type) ==
    /\ last_event' = Ev("contrast", "-", NoArg, NoArg)
    /\ tool = contrast_tool
    /\ Visible(view_type)
    /\ UNCHANGED <<file_loaded, dims, original_dims, norm_coords, slices,
                   rot_x_deg, rot_y_deg, tool, cine_active,
                   oblique_view_enabled>>
    /\ emitted' = UpdateAllViews
    /\ UNCHANGED <<call, ret, segmentation_data_list>>
    /\ UNCHANGED load3d_vars
    /\ UNCHANGED segman_vars
    /\ UNCHANGED disk_vars
    /\ intensity_min' = DragWindow(intensity_min, intensity_max, 0, 0)[1]
    /\ intensity_max' = DragWindow(intensity_min, intensity_max, 0, 0)[2]
    /\ UNCHANGED <<original_intensity_min, original_intensity_max>>

\* toggle_oblique_view(True)
ShowObliqueView ==
    /\ last_event' = Ev("view", "-", NoArg, NoArg)
    /\ ~oblique_view_enabled
    /\ oblique_view_enabled' = TRUE
    /\ UNCHANGED <<file_loaded, dims, original_dims, norm_coords, slices,
                   rot_x_deg, rot_y_deg, tool, cine_active>>
    /\ emitted' = UpdateAllViews
    /\ UNCHANGED <<call, ret, segmentation_data_list>>
    /\ UNCHANGED load3d_vars
    /\ UNCHANGED segman_vars
    /\ UNCHANGED disk_vars
    /\ UNCHANGED window_vars

\* toggle_main_views(True), also reached from toggle_oblique_view(False)
ShowMainViews ==
    /\ last_event' = Ev("view", "-", NoArg, NoArg)
    /\ oblique_view_enabled
    /\ oblique_view_enabled' = FALSE
    /\ UNCHANGED <<file_loaded, dims, original_dims, norm_coords, slices,
                   rot_x_deg, rot_y_deg, tool, cine_active>>
    /\ emitted' = UpdateAllViews
    /\ UNCHANGED <<call, ret, segmentation_data_list>>
    /\ UNCHANGED load3d_vars
    /\ UNCHANGED segman_vars
    /\ UNCHANGED disk_vars
    /\ UNCHANGED window_vars

Next ==
    \/ \E shape \in LoadShapes : OpenFile(shape)
    \/ OpenFileFailed
    \/ \E t \in Tools : SelectTool(t)
    \/ \E v \in Views, p \in ClickPoints : Click(v, p[1], p[2])
    \/ \E v \in Views, d \in {1, -1} : Wheel(v, d)
    \/ \E v \in Views : WheelNoVolume(v)
    \/ ResetClicked
    \/ \E s \in 1..MaxNz, e \in 1..MaxNz : SliceCrop(s, e)
    \/ \E a \in RotAngles : RotateDrag(a)
    \/ ShowObliqueView
    \/ ShowMainViews
    \/ \E v \in Views, d \in {1, -1} : ZoomWheel(v, d)
    \/ \E v \in Views : ContrastDrag(v)

Spec == Init /\ [][Next]_vars

\* The viewer with cine playback: views are started and stopped with the
\* cine tool and every running view's timer may fire at any time.  The
\* window stays in its initial layout of the three orthogonal views.
NextCine ==
    \/ \E shape \in LoadShapes : OpenFile(shape)
    \/ OpenFileFailed
    \/ \E t \in Tools : SelectTool(t)
    \/ \E v \in Views, p \in ClickPoints : Click(v, p[1], p[2])
    \/ \E v \in Views, d \in {1, -1} : Wheel(v, d)
    \/ ResetClicked
    \/ \E s \in 1..MaxNz, e \in 1..MaxNz : SliceCrop(s, e)
    \/ \E v \in Views : ToggleCine(v)
    \/ \E v \in Views : CineTick(v)
    \/ \E v \in Views : WheelNoVolume(v)
    \/ \E v \in Views : CineTickNoVolume(v)

SpecCine == Init /\ [][NextCine]_vars

\* The viewer with segmentation overlays: loads, crops and wheel steps,
\* loading and deleting segmentation files.
NextSeg ==
    \/ \E shape \in LoadShapes : OpenFile(shape)
    \/ OpenFileFailed
    \/ \E v \in OrthoViews, d \in {1, -1} : Wheel(v, d)
    \/ \E s \in 1..MaxNz, e \in 1..MaxNz : SliceCrop(s, e)
    \/ \E files \in SegFileLists : LoadSegmentation(files)
    \/ DeleteSegmentation

SpecSeg == Init /\ [][NextSeg]_vars

\* The viewer under loads of volumes with different display windows and
\* the contrast tool.
NextContrast ==
    \/ \E win \in LoadWindows : OpenVolume(<<MaxNx, MaxNy, MaxNz>>, win)
    \/ OpenFileFailed
    \/ \E t \in {crosshair_tool, contrast_tool} : SelectTool(t)
    \/ \E v \in OrthoViews, dx \in Drags, dy \in Drags : ContrastMove(v, dx, dy)
    \/ ResetClicked

SpecContrast == Init /\ [][NextContrast]_vars

(* ------------------- actions of the segmentation manager ---------------- *)

\* add_file of a readable file
AddFile(vol) ==
    /\ Len(segmentation_manager.nifti_objs) < MaxManagerFiles
    /\ segmentation_manager' = [segmentation_manager EXCEPT !.nifti_objs = Append(@, vol)]
    /\ seg_call' = NoSegCall
    /\ UNCHANGED recent_keys
    /\ UNCHANGED <<mpr_vars, load3d_vars, window_vars, disk_vars>>

\* clear
ClearManager ==
    /\ segmentation_manager' = EmptyManager
    /\ seg_call' = NoSegCall
    /\ recent_keys' = <<>>
    /\ UNCHANGED <<mpr_vars, load3d_vars, window_vars, disk_vars>>

\* clear_cache
ClearCache ==
    /\ segmentation_manager' = [segmentation_manager EXCEPT !.slice_cache = <<>>]
    /\ seg_call' = NoSegCall
    /\ recent_keys' = <<>>
    /\ UNCHANGED <<mpr_vars, load3d_vars, window_vars, disk_vars>>

\* get_slice(file_idx, axis, slice_idx)
GetSlice(file_idx, axis, slice_idx) ==
    LET cache_key == <<file_idx, axis, slice_idx>>
        od == segmentation_manager.slice_cache
        valid == ValidKey(segmentation_manager.nifti_objs,
                          file_idx, axis, slice_idx)
    IN  /\ IF file_idx < 0 \/ file_idx >= Len(segmentation_manager.nifti_objs)
           THEN /\ seg_call' = SegCall("get_slice", valid, cache_key, FALSE,
                                       ReturnedNone)
                /\ UNCHANGED <<segmentation_manager, recent_keys>>
           ELSE IF cache_key \in KeySet(od)
           THEN /\ segmentation_manager' = [segmentation_manager EXCEPT
                                      !.slice_cache = move_to_end(od, cache_key)]
                /\ seg_call' = SegCall("get_slice", valid, cache_key, TRUE,
                                       ValueOf(od, cache_key))
                /\ recent_keys' = Touch(recent_keys, cache_key)
           ELSE IF axis \notin Axes \/ ~InRange(axis, slice_idx)
           THEN /\ seg_call' = SegCall("get_slice", valid, cache_key, FALSE,
                                       ReturnedNone)
                /\ UNCHANGED <<segmentation_manager, recent_keys>>
           ELSE LET slice_2d ==
                        ReturnedSlice(FlipRows(
                            Plane(segmentation_manager.nifti_objs[file_idx + 1],
                                  axis, slice_idx), axis))
                IN  /\ segmentation_manager' = [segmentation_manager EXCEPT !.slice_cache =
                                          Insert(od, cache_key, slice_2d,
                                                 MaxCacheSlices)]
                    /\ seg_call' = SegCall("get_slice", valid, cache_key, FALSE,
                                       slice_2d)
                    /\ recent_keys' = Touch(recent_keys, cache_key)
        /\ UNCHANGED <<mpr_vars, load3d_vars, window_vars, disk_vars>>

\* The union of the flipped masks of the files of the manager.
MergedOf(nifti_objs) ==
    UNION {FlipX(nifti_objs[i]) : i \in DOMAIN nifti_objs}

\* build_merged_volume
BuildMergedVolume ==
    /\ segmentation_manager' =
           IF Len(segmentation_manager.nifti_objs) = 0
           THEN segmentation_manager
           ELSE [segmentation_manager EXCEPT !.merged_volume =
                    [built |-> TRUE, vol |-> MergedOf(segmentation_manager.nifti_objs)]]
    /\ seg_call' = NoSegCall
    /\ UNCHANGED recent_keys
    /\ UNCHANGED <<mpr_vars, load3d_vars, window_vars, disk_vars>>

\* MeshLoadWorker.run assigning seg_manager.merged_volume: the cached merged
\* volume, the zeros of the initialisation, or the volume merged so far.
AssignMergedVolume(vol) ==
    /\ segmentation_manager' = [segmentation_manager EXCEPT !.merged_volume =
                          [built |-> TRUE, vol |-> vol]]
    /\ seg_call' = NoSegCall
    /\ UNCHANGED recent_keys
    /\ UNCHANGED <<mpr_vars, load3d_vars, window_vars, disk_vars>>

\* get_merged_slice(axis, slice_idx)
GetMergedSlice(axis, slice_idx) ==
    LET cache_key == <<axis, slice_idx>>
        od == segmentation_manager.merged_cache
        valid == axis \in Axes /\ InRange(axis, slice_idx)
    IN  /\ IF ~segmentation_manager.merged_volume.built
           THEN /\ seg_call' = SegCall("get_merged_slice", valid, cache_key, FALSE,
                                       ReturnedNone)
                /\ UNCHANGED segmentation_manager
           ELSE IF cache_key \in KeySet(od)
           THEN /\ segmentation_manager' = [segmentation_manager EXCEPT !.merged_cache =
                                      move_to_end(od, cache_key)]
                /\ seg_call' = SegCall("get_merged_slice", valid, cache_key, TRUE,
                                       ValueOf(od, cache_key))
           ELSE IF axis \notin Axes \/ ~InRange(axis, slice_idx)
           THEN /\ seg_call' = SegCall("get_merged_slice", valid, cache_key, FALSE,
                                       ReturnedNone)
                /\ UNCHANGED segmentation_manager
           ELSE LET slice_2d ==
                        ReturnedSlice(Plane(segmentation_manager.merged_volume.vol,
                                            axis, slice_idx))
                IN  /\ segmentation_manager' = [segmentation_manager EXCEPT !.merged_cache =
                                          Insert(od, cache_key, slice_2d,
                                                 MaxCacheSlices)]
                    /\ seg_call' = SegCall("get_merged_slice", valid, cache_key, FALSE,
                                       slice_2d)
        /\ UNCHANGED recent_keys
        /\ UNCHANGED <<mpr_vars, load3d_vars, window_vars, disk_vars>>

\* The manager used for single slices and for merged slices; the files
\* added are copies of one volume, the caches being keyed by position.
NextSegManager ==
    \/ AddFile(VolA)
    \/ ClearManager
    \/ ClearCache
    \/ \E file_idx \in (-1)..MaxManagerFiles, axis \in AxisNames,
          slice_idx \in SliceIndices : GetSlice(file_idx, axis, slice_idx)
    \/ BuildMergedVolume
    \/ \E axis \in AxisNames, slice_idx \in SliceIndices :
           GetMergedSlice(axis, slice_idx)

SpecSegManager == Init /\ [][NextSegManager]_vars

\* The manager whose merged volume is built by itself and by the worker.
NextMerged ==
    \/ \E vol \in ManagerVolumes : AddFile(vol)
    \/ ClearManager
    \/ BuildMergedVolume
    \/ \E vol \in SUBSET (VolA \cup VolB) : AssignMergedVolume(vol)
    \/ \E axis \in AxisNames, slice_idx \in SliceIndices :
           GetMergedSlice(axis, slice_idx)

SpecMerged == Init /\ [][NextMerged]_vars

(* ------------------------ actions of the disk cache --------------------- *)

\* save_merged_volume(file_paths, merged_volume)
SaveMergedVolume(file_paths, vol) ==
    /\ Cardinality(DOMAIN cache.merged \cup {generate_cache_key(file_paths)})
           <= MaxSaves
    /\ cache' = [cache EXCEPT !.merged =
                    (generate_cache_key(file_paths) :> vol) @@ @]
    /\ disk_call' = [fn |-> "save_merged_volume", file_paths |-> file_paths]
    /\ saved' = (Snapshot(file_paths)
                    :> [vol |-> vol, file_paths |-> file_paths]) @@ saved
    /\ UNCHANGED mtime
    /\ UNCHANGED <<load_worker, merged_volume, viewer3d>>
    /\ UNCHANGED <<mpr_vars, window_vars, segman_vars>>

\* load_merged_volume(file_paths)
LoadMergedVolume(file_paths) ==
    /\ disk_call' =
           [fn |-> "load_merged_volume", file_paths |-> file_paths,
            ret |-> IF generate_cache_key(file_paths) \in DOMAIN cache.merged
                    THEN [kind |-> "volume",
                          vol |-> cache.merged[generate_cache_key(file_paths)]]
                    ELSE [kind |-> "None"]]
    /\ UNCHANGED <<mtime, saved>>
    /\ UNCHANGED <<load3d_vars, mpr_vars, window_vars, segman_vars>>

\* A segmentation file is rewritten: its modification time changes.
TouchFile(f) ==
    /\ mtime[f] < MaxMtime
    /\ mtime' = [mtime EXCEPT ![f] = @ + 1]
    /\ disk_call' = [fn |-> "touch", file |-> f]
    /\ UNCHANGED saved
    /\ UNCHANGED <<load3d_vars, mpr_vars, window_vars, segman_vars>>

NextDisk ==
    \/ \E file_paths \in CacheFileLists, vol \in CacheVolumes :
           SaveMergedVolume(file_paths, vol)
    \/ \E file_paths \in CacheFileLists : LoadMergedVolume(file_paths)
    \/ \E f \in {"a", "b"} : TouchFile(f)

SpecDisk == Init /\ [][NextDisk]_vars

(* --------------------- actions of the background load ------------------- *)

\* SegmentationViewer3D.initialize (seg_manager = FALSE) and
\* initialize_with_merge (seg_manager = TRUE) with visible files: the dialog
\* is shown and the worker thread is started.
StartLoad(files, seg_manager) ==
    /\ load_worker = NoWorker
    /\ ~viewer3d.waiting
    /\ viewer3d.queued_finished = 0
    /\ viewer3d.loads < MaxLoads
    /\ load_worker' = MeshLoadWorker(files, seg_manager, seg_manager)
    /\ viewer3d' = [viewer3d EXCEPT !.load_progress_dialog = TRUE,
                                    !.loading_finished = 0,
                                    !.loads = @ + 1]
    /\ UNCHANGED <<merged_volume, cache>>
    /\ UNCHANGED mpr_vars
    /\ UNCHANGED segman_vars
    /\ UNCHANGED disk_vars
    /\ UNCHANGED window_vars

\* MeshLoadWorker.run up to the loop: the merged volume is taken from the
\* cache, or initialised from the first file's shape.
RunBegin ==
    /\ load_worker.pc = "run"
    /\ LET w == load_worker
           key == generate_cache_key(w.files_to_load)
           hit == w.seg_manager /\ w.cache /\ key \in DOMAIN cache.merged
       IN  IF hit
           THEN /\ merged_volume' = cache.merged[key]
                /\ IF w.cancelled
                   THEN /\ load_worker' = [w EXCEPT !.pc = "returned",
                                                    !.merged_from_cache = TRUE]
                        /\ viewer3d' = [viewer3d EXCEPT
                                            !.queued_finished = @ + 1]
                   ELSE /\ load_worker' = [w EXCEPT !.pc = "loop",
                                                    !.merged_from_cache = TRUE]
                        /\ UNCHANGED viewer3d
           ELSE IF w.seg_manager
           THEN IF w.files_to_load[1] \in ReadableFiles
                THEN /\ merged_volume' = {}
                     /\ load_worker' = [w EXCEPT !.pc = "loop"]
                     /\ UNCHANGED viewer3d
                ELSE /\ load_worker' = [w EXCEPT !.pc = "loop",
                                                 !.seg_manager = FALSE]
                     /\ UNCHANGED <<merged_volume, viewer3d>>
           ELSE /\ load_worker' = [w EXCEPT !.pc = "loop"]
                /\ UNCHANGED <<merged_volume, viewer3d>>
    /\ UNCHANGED cache
    /\ UNCHANGED mpr_vars
    /\ UNCHANGED segman_vars
    /\ UNCHANGED disk_vars
    /\ UNCHANGED window_vars

\* One iteration of the loop of MeshLoadWorker.run: a file whose mesh is
\* cached is not read; a file that is read is merged and its mesh cached.
RunFile ==
    /\ load_worker.pc = "loop"
    /\ load_worker.idx < Len(load_worker.files_to_load)
    /\ ~load_worker.cancelled
    /\ LET w == load_worker
           key == generate_cache_key(w.files_to_load)
           nifti_file == w.files_to_load[w.idx + 1]
       IN  /\ load_worker' = [w EXCEPT !.idx = @ + 1]
           /\ IF w.cache /\ <<key, nifti_file>> \in cache.meshes
              THEN UNCHANGED <<merged_volume, cache>>
              ELSE IF nifti_file \notin ReadableFiles
              THEN UNCHANGED <<merged_volume, cache>>
              ELSE /\ merged_volume' =
                          IF w.seg_manager /\ ~w.merged_from_cache
                          THEN merged_volume \cup BinaryMask[nifti_file]
                          ELSE merged_volume
                   /\ cache' =
                          IF w.cache
                          THEN [cache EXCEPT !.meshes =
                                   @ \cup {<<key, nifti_file>>}]
                          ELSE cache
    /\ UNCHANGED viewer3d
    /\ UNCHANGED mpr_vars
    /\ UNCHANGED segman_vars
    /\ UNCHANGED disk_vars
    /\ UNCHANGED window_vars

\* The loop of MeshLoadWorker.run finds the worker cancelled: break, nothing is
\* saved, finished is emitted.
RunBreak ==
    /\ load_worker.pc = "loop"
    /\ load_worker.idx < Len(load_worker.files_to_load)
    /\ load_worker.cancelled
    /\ RunEnd(load_worker)
    /\ UNCHANGED mpr_vars
    /\ UNCHANGED segman_vars
    /\ UNCHANGED disk_vars
    /\ UNCHANGED window_vars

\* MeshLoadWorker.run after the last file.
RunComplete ==
    /\ load_worker.pc = "loop"
    /\ load_worker.idx = Len(load_worker.files_to_load)
    /\ RunEnd(load_worker)
    /\ UNCHANGED mpr_vars
    /\ UNCHANGED segman_vars
    /\ UNCHANGED disk_vars
    /\ UNCHANGED window_vars

\* SegmentationViewer3D._on_load_cancelled up to the return of wait(): the
\* dialog's canceled signal arrives, the worker is told to stop and the main
\* thread blocks.
CancelClicked ==
    /\ viewer3d.load_progress_dialog
    /\ ~viewer3d.waiting
    /\ load_worker # NoWorker
    /\ load_worker' = [load_worker EXCEPT !.cancelled = TRUE]
    /\ viewer3d' = [viewer3d EXCEPT !.waiting = TRUE]
    /\ UNCHANGED <<merged_volume, cache>>
    /\ UNCHANGED mpr_vars
    /\ UNCHANGED segman_vars
    /\ UNCHANGED disk_vars
    /\ UNCHANGED window_vars

\* SegmentationViewer3D._on_load_cancelled after wait() has returned.
CancelReturn ==
    /\ viewer3d.waiting
    /\ ~Running(load_worker)
    /\ load_worker' = NoWorker
    /\ viewer3d' = [viewer3d EXCEPT !.waiting = FALSE,
                                    !.load_progress_dialog = FALSE,
                                    !.loading_finished = @ + 1]
    /\ UNCHANGED <<merged_volume, cache>>
    /\ UNCHANGED mpr_vars
    /\ UNCHANGED segman_vars
    /\ UNCHANGED disk_vars
    /\ UNCHANGED window_vars

\* SegmentationViewer3D._on_load_finished: the main thread's event loop
\* delivers a queued finished signal of the worker.
OnLoadFinished ==
    /\ viewer3d.queued_finished > 0
    /\ ~viewer3d.waiting
    /\ load_worker' = NoWorker
    /\ viewer3d' = [viewer3d EXCEPT !.queued_finished = @ - 1,
                                    !.load_progress_dialog = FALSE,
                                    !.loading_finished = @ + 1]
    /\ UNCHANGED <<merged_volume, cache>>
    /\ UNCHANGED mpr_vars
    /\ UNCHANGED segman_vars
    /\ UNCHANGED disk_vars
    /\ UNCHANGED window_vars

NextLoad3D ==
    \/ \E files \in FilesToLoad, seg_manager \in BOOLEAN :
           StartLoad(files, seg_manager)
    \/ RunBegin
    \/ RunFile
    \/ RunBreak
    \/ RunComplete
    \/ CancelClicked
    \/ CancelReturn
    \/ OnLoadFinished

SpecLoad3D == Init /\ [][NextLoad3D]_vars

\* One call of get_slice_data returning its image.
GetSliceData ==
    /\ call.fn = "get_slice_data"
    /\ ret.kind = "none"
    /\ ret' = get_slice_data(call)
    /\ UNCHANGED <<file_loaded, dims, original_dims, norm_coords, slices,
                   rot_x_deg, rot_y_deg, tool, cine_active,
                   oblique_view_enabled, emitted, last_event, call,
                   segmentation_data_list>>
    /\ UNCHANGED load3d_vars
    /\ UNCHANGED segman_vars
    /\ UNCHANGED disk_vars
    /\ UNCHANGED window_vars

\* Slice extraction on its own: any call of get_slice_data, the viewer idle.
InitExtract ==
    /\ InitViewer
    /\ InitLoad3D
    /\ InitSegManager
    /\ InitDisk
    /\ call \in GetSliceDataCalls \cup PlaceholderCalls \cup ObliqueCalls
    /\ ret = NoRet

NextExtract == GetSliceData

SpecExtract == InitExtract /\ [][NextExtract]_vars

(* ======================= properties of the claims ===================== *)

\* A volume is present: the coordinator has dims to work with.
Loaded == file_loaded /\ dims # NoDims

\* round(n / d) for n >= 0, d > 0: to nearest, ties to even (Python round).
RoundNearest(n, d) ==
    LET q == n \div d
        r == n % d
    IN  IF 2 * r < d THEN q
        ELSE IF 2 * r > d THEN q + 1
        ELSE IF q % 2 = 0 THEN q ELSE q + 1

\* Equality of two rationals, whether reduced or not.
RatEq(f, g) == f[1] * g[2] = g[1] * f[2]

\* The raw fraction f brought into [0, 1].
InUnit(f) == IF f[1] < 0 THEN <<0, 1>> ELSE IF f[1] > f[2] THEN <<1, 1>> ELSE f

\* The fraction and axis a view scrolls along, and the two a click in it sets.
OwnCoord(v) == CASE v = "axial" -> "A" [] v = "coronal" -> "C" [] v = "sagittal" -> "S"
AxisLen(v) == CASE v \in {"axial", "oblique"} -> dims[3]
                [] v = "coronal" -> dims[2]
                [] v = "sagittal" -> dims[1]
ClickX(v) == IF v = "sagittal" THEN "C" ELSE "S"
ClickY(v) == IF v = "axial" THEN "C" ELSE "A"
Centres == [axial |-> dims[3] \div 2, coronal |-> dims[2] \div 2,
            sagittal |-> dims[1] \div 2, oblique |-> dims[3] \div 2]

(* ---- C1 ---- *)
\* C1: round-trip consistency. In every state with a volume, whatever clicks,
\* wheel scrolls, cine ticks, resets and crops led to it, each orthogonal
\* slice index is within 1 of the index re-derived from the cursor:
\* |axial - round((1-A)(Nz-1))| <= 1, |coronal - round(C(Ny-1))| <= 1 and
\* |sagittal - round(S(Nx-1))| <= 1.
C1_RoundTripWithinOne ==
    Loaded =>
        /\ Abs(slices.axial
               - RoundNearest((norm_coords.A[2] - norm_coords.A[1]) * (dims[3] - 1),
                              norm_coords.A[2])) <= 1
        /\ Abs(slices.coronal
               - RoundNearest(norm_coords.C[1] * (dims[2] - 1), norm_coords.C[2])) <= 1
        /\ Abs(slices.sagittal
               - RoundNearest(norm_coords.S[1] * (dims[1] - 1), norm_coords.S[2])) <= 1

\* A cine tick scrolled the axial view after a click had placed S and C.
C1_Witness ==
    /\ Loaded
    /\ last_event.op = "cine_tick"
    /\ last_event.view = "axial"
    /\ norm_coords.S = <<1, 5>>
    /\ norm_coords.C = <<4, 5>>
    /\ slices.coronal = 0

(* ---- C2 ---- *)
\* C2: after a click in an orthogonal view the two other views' slice indices
\* are the round-to-nearest of the clamped click fractions: axial click (u, v)
\* gives coronal = round(v(Ny-1)), sagittal = round(u(Nx-1)); coronal click
\* gives axial = round((1-v)(Nz-1)), sagittal = round(u(Nx-1)); sagittal click
\* gives axial = round((1-v)(Nz-1)), coronal = round(u(Ny-1)).
C2_ClickStoresRounded ==
    (Loaded /\ last_event.op = "click" /\ last_event.view \in OrthoViews) =>
        LET u == InUnit(last_event.x)
            v == InUnit(last_event.y)
            rx(n) == RoundNearest(u[1] * (n - 1), u[2])
            ry(n) == RoundNearest(v[1] * (n - 1), v[2])
            ryInv(n) == RoundNearest((v[2] - v[1]) * (n - 1), v[2])
        IN  CASE last_event.view = "axial" ->
                    slices.coronal = ry(dims[2]) /\ slices.sagittal = rx(dims[1])
              [] last_event.view = "coronal" ->
                    slices.axial = ryInv(dims[3]) /\ slices.sagittal = rx(dims[1])
              [] last_event.view = "sagittal" ->
                    slices.axial = ryInv(dims[3]) /\ slices.coronal = rx(dims[2])

(* ---- C3 ---- *)
\* C3: a click in an orthogonal view sets the two fractions of that view to
\* the clamped click position and leaves the view's own slice index, the
\* third fraction, slices.oblique and both rotation angles unchanged.
C3_ClickFrame ==
    [][(last_event'.op = "click" /\ last_event'.view \in OrthoViews) =>
        LET v == last_event'.view
        IN  /\ slices'[v] = slices[v]
            /\ slices'.oblique = slices.oblique
            /\ norm_coords'[OwnCoord(v)] = norm_coords[OwnCoord(v)]
            /\ RatEq(norm_coords'[ClickX(v)], InUnit(last_event'.x))
            /\ RatEq(norm_coords'[ClickY(v)], InUnit(last_event'.y))
            /\ rot_x_deg' = rot_x_deg
            /\ rot_y_deg' = rot_y_deg]_vars

\* An axial click landed while the axial slice was scrolled off its centre, the
\* oblique index differed from it and the plane was rotated.
C3_Witness ==
    /\ Loaded
    /\ last_event.op = "click"
    /\ last_event.view = "axial"
    /\ slices.axial # dims[3] \div 2
    /\ slices.oblique # slices.axial
    /\ norm_coords.A # Half
    /\ rot_y_deg = 90

(* ---- C4 ---- *)
\* C4: the cursor never leaves the unit cube: 0 <= S, C, A <= 1 in every
\* reachable state, and a click stores its inputs clamped into [0, 1]
\* (-0.3 becomes 0 and 1.7 becomes 1).
C4_CursorInUnitCube ==
    /\ \A c \in {"S", "C", "A"} :
            /\ norm_coords[c][2] > 0
            /\ 0 <= norm_coords[c][1]
            /\ norm_coords[c][1] <= norm_coords[c][2]
    /\ (Loaded /\ last_event.op = "click" /\ last_event.view \in OrthoViews) =>
            /\ RatEq(norm_coords[ClickX(last_event.view)], InUnit(last_event.x))
            /\ RatEq(norm_coords[ClickY(last_event.view)], InUnit(last_event.y))

\* A click at (-0.3, 1.7) in the coronal view was stored as S = 0, A = 1.
C4_Witness ==
    /\ Loaded
    /\ last_event = Ev("click", "coronal", <<-3, 10>>, <<17, 10>>)
    /\ norm_coords.S = <<0, 1>>
    /\ norm_coords.A = <<1, 1>>

(* ---- C5 ---- *)
\* C5: a scroll of an orthogonal view whose axis has N > 1 voxels to index i
\* sets slices[view] = i and the one matching fraction (A = 1 - i/(Nz-1),
\* C = i/(Ny-1), S = i/(Nx-1)); the other two fractions and the other three
\* slice indices keep their values.
C5_ScrollFrame ==
    [][(last_event'.op \in {"wheel", "cine_tick"}
            /\ last_event'.view \in OrthoViews /\ AxisLen(last_event'.view) > 1) =>
        LET v == last_event'.view
            i == last_event'.y[1]
            n == AxisLen(v)
            f == norm_coords'[OwnCoord(v)]
        IN  /\ slices'[v] = i
            /\ IF v = "axial" THEN f[1] * (n - 1) = (n - 1 - i) * f[2]
                              ELSE f[1] * (n - 1) = i * f[2]
            /\ \A c \in {"S", "C", "A"} \ {OwnCoord(v)} :
                    norm_coords'[c] = norm_coords[c]
            /\ \A o \in Views \ {v} : slices'[o] = slices[o]]_vars

\* The axial view was scrolled to its last slice while a click had placed S
\* and C away from the centre.
C5_Witness ==
    /\ Loaded
    /\ last_event.op = "wheel"
    /\ last_event.view = "axial"
    /\ dims[3] = 3
    /\ slices.axial = 2
    /\ norm_coords.A = <<0, 1>>
    /\ norm_coords.S = <<1, 5>>
    /\ norm_coords.C = <<4, 5>>

(* ---- C6 ---- *)
\* C6: when the scrolled axis has a single voxel the scroll keeps every cursor
\* fraction at its previous value (no division), and slices[view] is still
\* set to the new index.
C6_FlatAxisKeepsFraction ==
    [][(last_event'.op \in {"wheel", "cine_tick"}
            /\ last_event'.view \in OrthoViews /\ AxisLen(last_event'.view) = 1) =>
        /\ norm_coords' = norm_coords
        /\ slices'[last_event'.view] = last_event'.y[1]]_vars

\* The axial view of a one-slice volume was scrolled while A was off-centre.
C6_Witness ==
    /\ Loaded
    /\ last_event.op = "wheel"
    /\ last_event.view = "axial"
    /\ dims[3] = 1
    /\ norm_coords.A = <<4, 5>>
    /\ slices.axial = 0

(* ---- C7 ---- *)
\* C7: a wheel step with direction d in {+1, -1} moves an orthogonal view to
\* (current + d) mod N: from N-1 forward to 0, from 0 backward to N-1.
C7_WheelWraps ==
    [][(last_event'.op = "wheel" /\ last_event'.view \in OrthoViews) =>
        LET v == last_event'.view
            d == last_event'.x[1]
            n == AxisLen(v)
            k == slices[v] + d
        IN  /\ d \in {1, -1}
            /\ slices'[v] = (IF k = n THEN 0 ELSE IF k = -1 THEN n - 1 ELSE k)]_vars

\* A forward wheel step on the axial view ended at slice 0: it wrapped.
C7_Witness ==
    /\ Loaded
    /\ last_event.op = "wheel"
    /\ last_event.view = "axial"
    /\ last_event.x = <<1, 1>>
    /\ dims[3] = 3
    /\ slices.axial = 0

(* ---- C8 ---- *)
\* C8: scrolling the oblique view sets slices.oblique and nothing else: the
\* cursor fractions and the three orthogonal slice indices are unchanged.
C8_ObliqueScrollFrame ==
    [][(last_event'.op \in {"wheel", "cine_tick"} /\ last_event'.view = "oblique") =>
        /\ slices'.oblique = last_event'.y[1]
        /\ norm_coords' = norm_coords
        /\ \A v \in OrthoViews : slices'[v] = slices[v]]_vars

\* The oblique view was scrolled away from the axial index, cursor off-centre.
C8_Witness ==
    /\ Loaded
    /\ last_event.op = "wheel"
    /\ last_event.view = "oblique"
    /\ slices.oblique # slices.axial
    /\ norm_coords.A # Half

(* ---- C9 ---- *)
\* C9: the oblique extraction parameter depends on the cursor, the shape and
\* the rotation only: states that differ in slices.oblique alone yield the
\* same oblique offset.
C9_ObliqueParamIgnoresIndex ==
    Loaded =>
        \A k \in 0..(dims[3] - 1) :
            SliceParam("oblique", [slices EXCEPT !.oblique = k], norm_coords,
                       dims, rot_x_deg, rot_y_deg)
            = SliceParam("oblique", slices, norm_coords, dims, rot_x_deg, rot_y_deg)

\* The oblique view of a rotated plane was scrolled off the volume centre.
C9_Witness ==
    /\ Loaded
    /\ last_event.op = "wheel"
    /\ last_event.view = "oblique"
    /\ slices.oblique # dims[3] \div 2
    /\ rot_y_deg = 90
    /\ norm_coords.S = <<1, 5>>

(* ---- C10 ---- *)
\* C10 (as claimed): after a reset the cursor is (0.5, 0.5, 0.5), every slice
\* index is at its volume centre and the rotation is (0, 0), whatever tool
\* was selected.
C10_ResetRestoresEverything ==
    (Loaded /\ last_event.op = "reset") =>
        /\ norm_coords = CenterCoords
        /\ slices = Centres
        /\ rot_x_deg = 0
        /\ rot_y_deg = 0

\* C10 (amended): a reset with a volume present restores only what belongs to
\* the selected tool. Crosshair tool: cursor (0.5, 0.5, 0.5) and every slice
\* index at floor(N/2), rotation unchanged. Rotate tool: rotation (0, 0),
\* cursor and slice indices unchanged. Contrast, zoom or cine tool: cursor,
\* slice indices and rotation all unchanged.
C10_ResetPerTool ==
    [][(last_event'.op = "reset" /\ Loaded) =>
        CASE tool = crosshair_tool ->
                /\ norm_coords' = CenterCoords
                /\ slices' = Centres
                /\ rot_x_deg' = rot_x_deg
                /\ rot_y_deg' = rot_y_deg
          [] tool = rotate_tool ->
                /\ rot_x_deg' = 0
                /\ rot_y_deg' = 0
                /\ norm_coords' = norm_coords
                /\ slices' = slices
          [] OTHER ->
                /\ norm_coords' = norm_coords
                /\ slices' = slices
                /\ rot_x_deg' = rot_x_deg
                /\ rot_y_deg' = rot_y_deg]_vars

\* A reset with the crosshair tool centred the cursor and left the plane
\* rotated by 90 degrees.
C10_Witness ==
    /\ Loaded
    /\ last_event.op = "reset"
    /\ tool = crosshair_tool
    /\ norm_coords = CenterCoords
    /\ slices = Centres
    /\ rot_y_deg = 90

(* ---- C11 ---- *)
\* C11: after a volume of shape (Nx, Ny, Nz) is loaded, whatever the state
\* before, the cursor is (0.5, 0.5, 0.5), slices.sagittal = floor(Nx/2),
\* slices.coronal = floor(Ny/2), slices.axial = floor(Nz/2) and both rotation
\* angles are 0.
C11_LoadCentres ==
    (last_event.op = "open") =>
        /\ Loaded
        /\ norm_coords = CenterCoords
        /\ slices.sagittal = dims[1] \div 2
        /\ slices.coronal = dims[2] \div 2
        /\ slices.axial = dims[3] \div 2
        /\ rot_x_deg = 0
        /\ rot_y_deg = 0

\* The flat volume was loaded while the rotate tool was selected, i.e. into
\* a session that had already been worked in.
C11_Witness ==
    /\ last_event.op = "open"
    /\ dims = <<1, MaxNy, 1>>
    /\ tool = rotate_tool
    /\ slices = [axial |-> 0, coronal |-> MaxNy \div 2, sagittal |-> 0,
                 oblique |-> 0]

C13_RotateDragAdditive ==
    (last_event.op = "rotate") =>
        rot_y_deg = last_event.y[1] + last_event.x[1]

\* C13 (amended): a rotation drag sets rot_y_deg to the angle the event
\* carries (the pointer's angle about the crosshair), whatever the angle was
\* before, and never changes rot_x_deg, which stays 0.
C13_RotateDragAbsolute ==
    /\ rot_x_deg = 0
    /\ (last_event.op = "rotate") => rot_y_deg = last_event.x[1]

\* A drag to 90 degrees on a plane already at 90 degrees left it at 90.
C13_Witness ==
    /\ last_event.op = "rotate"
    /\ last_event.x = <<90, 1>>
    /\ last_event.y = <<90, 1>>
    /\ rot_y_deg = 90

(* ---- C14 ---- *)
\* C14: oblique containment. For every rotation and cursor the sampled
\* oblique plane (volume centre shifted along w by the offset that
\* get_slice_data passes to _get_oblique_slice) contains the cursor's voxel
\* position: dot(cursor_voxel - plane_point, w) = 0, that is, the cursor's
\* depth offset equals the plane's offset from the centre.
C14_ObliqueContainsCursor ==
    Loaded =>
        LET dep == DepthOffset(norm_coords, dims, rot_x_deg, rot_y_deg)
            off == PlaneOffset(SliceParam("oblique", slices, norm_coords, dims,
                                          rot_x_deg, rot_y_deg), dims)
        IN  RatEq(dep, off)

(* ---- C15 ---- *)
\* C15: after every click or scroll of an orthogonal view, each shown
\* orthogonal view is sent the inverse of the click mapping - axial (S, C),
\* coronal (S, A), sagittal (C, A) - so a click at (u, v) is displayed in the
\* clicked view at (clamp(u), clamp(v)); the crosshair sent to the oblique
\* view is always (0.5, 0.5).
C15_CrosshairInverse ==
    /\ \A v \in DOMAIN emitted : v = "oblique" => emitted[v] = <<Half, Half>>
    /\ (Loaded /\ last_event.op \in {"click", "wheel", "cine_tick"}
            /\ last_event.view \in OrthoViews) =>
        /\ OrthoViews \subseteq DOMAIN emitted
        /\ ("oblique" \in DOMAIN emitted) = oblique_view_enabled
        /\ emitted["axial"] = <<norm_coords.S, norm_coords.C>>
        /\ emitted["coronal"] = <<norm_coords.S, norm_coords.A>>
        /\ emitted["sagittal"] = <<norm_coords.C, norm_coords.A>>
        /\ (last_event.op = "click") =>
                /\ RatEq(emitted[last_event.view][1], InUnit(last_event.x))
                /\ RatEq(emitted[last_event.view][2], InUnit(last_event.y))

\* With the oblique view shown, a click at (-0.3, 1.7) in the axial view was
\* displayed there at (0, 1) and the oblique view was sent (0.5, 0.5).
C15_Witness ==
    /\ Loaded
    /\ last_event = Ev("click", "axial", <<-3, 10>>, <<17, 10>>)
    /\ "oblique" \in DOMAIN emitted
    /\ emitted["axial"] = <<(<<0, 1>>), (<<1, 1>>)>>
    /\ emitted["oblique"] = <<Half, Half>>

\* The call under way has returned its image.
Returned == call.fn = "get_slice_data" /\ ret.kind = "image"

\* The rational v = <<n, d>> clipped to [lo, hi], as a numerator over d.
ClipNum(v, lo, hi) ==
    IF v[1] < lo * v[2] THEN lo * v[2]
    ELSE IF v[1] > hi * v[2] THEN hi * v[2] ELSE v[1]

\* C16: with intensity_max > intensity_min every pixel of the returned image
\* is 255 * (clip(v, min, max) - min) / (max - min) rounded to the nearest
\* integer (at most one half away from it, whatever the rule for ties), v
\* the value of the aspect-corrected slice there, and lies in 0..255.
C16_WindowRounds ==
    (Returned /\ call.intensity_max > call.intensity_min) =>
        \A q \in DOMAIN ret.pix :
            LET v == AspectCorrected(call).val[q]
                lo == call.intensity_min
                hi == call.intensity_max
            IN  /\ 2 * Abs(255 * (ClipNum(v, lo, hi) - lo * v[2])
                               - ret.pix[q] * v[2] * (hi - lo)) <= v[2] * (hi - lo)
                /\ ret.pix[q] \in 0..255

\* C17: with intensity_max <= intensity_min the call returns an image, all
\* of its pixels 0, of the shape the same call returns under the valid
\* window (0, 1).
C17_DegenerateWindowZeros ==
    (Returned /\ call.intensity_max <= call.intensity_min) =>
        LET valid == get_slice_data([call EXCEPT !.intensity_min = 0,
                                                 !.intensity_max = 1])
        IN  /\ ret.h = valid.h
            /\ ret.w = valid.w
            /\ DOMAIN ret.pix = DOMAIN valid.pix
            /\ \A q \in DOMAIN ret.pix : ret.pix[q] = 0

\* A degenerate window (1, 1) on an axial slice the aspect correction
\* stretched from 3 rows to 6: six rows of zeros come back.
C17_Witness ==
    /\ Returned
    /\ call.view_type = "axial"
    /\ call.data.shape = <<2, MaxSide, 2>>
    /\ call.affine = <<1, 2, 1>>
    /\ call.intensity_min = 1
    /\ call.intensity_max = 1
    /\ ret.h = 2 * MaxSide
    /\ ret.w = 2
    /\ \A q \in DOMAIN ret.pix : ret.pix[q] = 0

\* The raw slice of the call under way, before aspect correction.
Raw == RawSlice(call.data, call.view_type, call.slices)

\* The call under way was for an orthogonal view and has returned its image.
ReturnedOrtho == Returned /\ call.view_type \in OrthoViews

\* The in-plane spacing pair the specification names for each view, as
\* <<fast, slow>> = <<column spacing, row spacing>>.
SpacingPair ==
    CASE call.view_type = "axial" -> <<call.affine[1], call.affine[2]>>
      [] call.view_type = "coronal" -> <<call.affine[1], call.affine[3]>>
      [] call.view_type = "sagittal" -> <<call.affine[2], call.affine[3]>>

\* C18: when the two in-plane spacings of the view are positive and differ,
\* the returned image has the raw slice's width, and its height is
\* raw_height * spacing_slow / spacing_fast rounded to the nearest integer
\* (at most one half away from it, whatever the rule for ties).
C18_AspectHeightRounds ==
    (ReturnedOrtho /\ SpacingPair[1] > 0 /\ SpacingPair[2] > 0
              /\ SpacingPair[1] # SpacingPair[2]) =>
        /\ ret.w = Raw.w
        /\ 2 * Abs(Raw.h * SpacingPair[2] - ret.h * SpacingPair[1]) <= SpacingPair[1]

\* C19 as stated: if either in-plane spacing is zero or negative, the image
\* keeps the raw slice's height.
C19_NonPositiveSpacingSkips ==
    (ReturnedOrtho /\ (SpacingPair[1] <= 0 \/ SpacingPair[2] <= 0)) =>
        ret.h = Raw.h

\* C19: if either in-plane spacing is zero the correction is skipped and
\* the image keeps the raw slice's height and width; a negative spacing is
\* not skipped but taken by its absolute value: the image is the one the
\* same call returns with every spacing replaced by its absolute value.
C19_ZeroSkipsNegativeAbs ==
    ReturnedOrtho =>
        /\ (SpacingPair[1] = 0 \/ SpacingPair[2] = 0) =>
                (ret.h = Raw.h /\ ret.w = Raw.w)
        /\ (SpacingPair[1] # 0 /\ SpacingPair[2] # 0
                /\ (SpacingPair[1] < 0 \/ SpacingPair[2] < 0)) =>
                ret = get_slice_data([call EXCEPT !.affine =
                        <<Abs(call.affine[1]), Abs(call.affine[2]),
                          Abs(call.affine[3])>>])

\* An axial slice of 4 rows with spacings (-1, 2): the image has 8 rows.
C19_Witness ==
    /\ Returned
    /\ call.view_type = "axial"
    /\ call.data.shape = <<2, MaxSide, 2>>
    /\ call.affine = <<-1, 2, 0>>
    /\ Raw.h = MaxSide
    /\ ret.h = 2 * MaxSide

\* C20: if the two in-plane spacings of the view are equal, the returned
\* image has the raw slice's height and width, and each pixel is the
\* windowed value of the raw pixel at the same row and column.
C20_EqualSpacingIdentity ==
    (ReturnedOrtho /\ SpacingPair[1] = SpacingPair[2]) =>
        /\ ret.h = Raw.h
        /\ ret.w = Raw.w
        /\ DOMAIN ret.pix = DOMAIN Raw.val
        /\ \A q \in DOMAIN ret.pix :
               ret.pix[q] = WindowPixel(Raw.val[q], call.intensity_min,
                                        call.intensity_max)

\* A coronal slice with spacings (2, 2) under the window (0, 4): 2 rows by
\* 2 columns as cut, not all of one grey level.
C20_Witness ==
    /\ Returned
    /\ call.view_type = "coronal"
    /\ call.data.shape = <<2, MaxSide, 2>>
    /\ call.affine = <<2, 1, 2>>
    /\ call.intensity_min = 0
    /\ call.intensity_max = MaxIntensity
    /\ ret.h = 2
    /\ ret.w = 2
    /\ \E q1, q2 \in DOMAIN ret.pix : 0 < ret.pix[q1] /\ ret.pix[q1] < ret.pix[q2]

\* C21: get_slice_data returns the 10 by 10 image of zeros, without
\* raising, when the volume is None, when the view type is none of axial,
\* coronal, sagittal, oblique, or when the slice cut from the volume has no
\* pixels.
C21_PlaceholderOnMissing ==
    (call.fn = "get_slice_data" /\ ret.kind # "none"
        /\ \/ call.data = NoData
           \/ call.view_type \notin Views
           \/ /\ call.view_type \in OrthoViews
              /\ call.slices[call.view_type]
                     < call.data.shape[AxisOf(call.view_type)]
              /\ Raw.h * Raw.w = 0) =>
        /\ ret.kind # "raise"
        /\ ret.h = 10
        /\ ret.w = 10
        /\ DOMAIN ret.pix = (0..9) \X (0..9)
        /\ \A q \in DOMAIN ret.pix : ret.pix[q] = 0

\* A coronal cut through a volume whose first axis is empty: the slice has
\* 2 rows and no columns, and the 10 by 10 image of zeros comes back.
C21_Witness ==
    /\ call.fn = "get_slice_data"
    /\ call.data = Volume(EmptyShape)
    /\ call.view_type = "coronal"
    /\ Raw.h = 2
    /\ Raw.w = 0
    /\ ret.kind = "placeholder"
    /\ ret.h = 10
    /\ ret.pix[<<9, 9>>] = 0

\* C22: in the state a click (view, u, v) leaves, the same click applied
\* again gives the same cursor, slice indices, extraction parameters and
\* emitted crosshairs; in the state set_slice_from_scroll(view, i) leaves,
\* the same call applied again gives the same cursor, slice indices and
\* extraction parameters.
C22_RepeatedEventIdempotent ==
    /\ (Loaded /\ last_event.op = "click") =>
          LET v == last_event.view
              nc == ClickCoords(v, Clamp01(last_event.x), Clamp01(last_event.y))
              sl == ClickSlices(v, Clamp01(last_event.x), Clamp01(last_event.y))
          IN  /\ nc = norm_coords
              /\ sl = slices
              /\ \A w \in Views :
                    SliceParam(w, sl, nc, dims, rot_x_deg, rot_y_deg)
                      = SliceParam(w, slices, norm_coords, dims, rot_x_deg, rot_y_deg)
              /\ UpdateViews(Views, file_loaded, dims, nc, oblique_view_enabled)
                    = emitted
    /\ (Loaded /\ last_event.op \in {"wheel", "cine_tick"}) =>
          LET v == last_event.view
              i == last_event.y[1]
              nc == ScrollCoords(v, i)
              sl == ScrollSlices(v, i)
          IN  /\ nc = norm_coords
              /\ sl = slices
              /\ \A w \in Views :
                    SliceParam(w, sl, nc, dims, rot_x_deg, rot_y_deg)
                      = SliceParam(w, slices, norm_coords, dims, rot_x_deg, rot_y_deg)

\* A wheel step in the coronal view of the 2 x 2 x 3 volume has moved the
\* coronal slice from the centre to 0 and the cursor's C with it.
C22_Witness ==
    /\ Loaded
    /\ dims = <<MaxNx, MaxNy, MaxNz>>
    /\ last_event.op = "wheel"
    /\ last_event.view = "coronal"
    /\ last_event.y = <<0, 1>>
    /\ slices.coronal = 0
    /\ norm_coords.C = <<0, 1>>
    /\ slices.axial # MaxNz \div 2

\* The oblique call under way has returned its image.
ReturnedOblique == Returned /\ call.view_type = "oblique"

\* u = R (1,0,0), v = R (0,1,0), w = R (0,0,1) for R = Ry(ty) Rx(tx), the
\* standard right-handed rotations about X and Y, Y applied after X, written
\* out column by column.
StandardBasis(tx, ty) ==
    [u |-> <<CosDeg(ty), 0, -SinDeg(ty)>>,
     v |-> <<SinDeg(ty) * SinDeg(tx), CosDeg(tx), CosDeg(ty) * SinDeg(tx)>>,
     w |-> <<SinDeg(ty) * CosDeg(tx), -SinDeg(tx), CosDeg(ty) * CosDeg(tx)>>]

\* C23 as stated: the basis of the sampling grid and the basis of the
\* crosshair projection are those of R = Ry(rot_y_deg) Rx(rot_x_deg), built
\* from the angles as given.
C23_BasisFromGivenAngles ==
    ReturnedOblique =>
        /\ ObliqueBasis(call.rot_x_deg, call.rot_y_deg)
              = StandardBasis(call.rot_x_deg, call.rot_y_deg)
        /\ ProjectionBasis(call.rot_x_deg, call.rot_y_deg)
              = StandardBasis(call.rot_x_deg, call.rot_y_deg)

\* C23: the basis of the sampling grid and the basis of the crosshair
\* projection are those of R = Ry(-rot_y_deg) Rx(-rot_x_deg): u = R (1,0,0),
\* v = R (0,1,0), w = R (0,0,1) with both angles negated.
C23_BasisFromNegatedAngles ==
    ReturnedOblique =>
        /\ ObliqueBasis(call.rot_x_deg, call.rot_y_deg)
              = StandardBasis(-call.rot_x_deg, -call.rot_y_deg)
        /\ ProjectionBasis(call.rot_x_deg, call.rot_y_deg)
              = StandardBasis(-call.rot_x_deg, -call.rot_y_deg)

\* rot_y = 90 degrees on the 2 x 4 x 2 volume, cursor at the centre: the
\* basis is u = (0,0,1), v = (0,1,0), w = (-1,0,0), and the image's first
\* row runs along +Z through the voxels (1,0,0) and (1,0,1).
C23_Witness ==
    /\ ReturnedOblique
    /\ call.data.shape = <<2, MaxSide, 2>>
    /\ call.rot_x_deg = 0
    /\ call.rot_y_deg = 90
    /\ call.norm_coords = CenterCoords
    /\ call.intensity_min = 0
    /\ call.intensity_max = MaxIntensity
    /\ ObliqueBasis(0, 90) = [u |-> <<0, 0, 1>>, v |-> <<0, 1, 0>>, w |-> <<-1, 0, 0>>]
    /\ ret.pix[<<0, 1>>] = (255 * 1) \div MaxIntensity
    /\ ret.pix[<<0, 2>>] = 255

\* C24: the oblique image is a square whose side is sqrt(Nx^2 + Ny^2 + Nz^2)
\* rounded to the nearest integer (side - 1/2 <= diagonal <= side + 1/2),
\* and the depth-offset conversion, from dims, and the sampling grid, from
\* data.shape, use one and the same slice_dim.
C24_ObliqueSideRounds ==
    ReturnedOblique =>
        LET n2 == Dot(call.data.shape, call.data.shape)
        IN  /\ ret.h = ret.w
            /\ (2 * ret.h - 1) * (2 * ret.h - 1) <= 4 * n2
            /\ 4 * n2 <= (2 * ret.h + 1) * (2 * ret.h + 1)
            /\ SliceDim(call.dims) = SliceDim(call.data.shape)

\* C25: whenever a volume is loaded, each orthogonal slice index is a valid
\* index of its axis: 0 <= slices.sagittal < Nx, 0 <= slices.coronal < Ny,
\* 0 <= slices.axial < Nz for the current dims.
C25_SliceIndicesValid ==
    Loaded =>
        /\ slices.sagittal \in 0..(dims[1] - 1)
        /\ slices.coronal \in 0..(dims[2] - 1)
        /\ slices.axial \in 0..(dims[3] - 1)

\* After a crop to two axial slices, a cine tick in the coronal view has
\* wrapped its index from 0 to the last one, Ny - 1.
C25_Witness ==
    /\ Loaded
    /\ original_dims = <<MaxNx, MaxNy, MaxNz>>
    /\ dims = <<MaxNx, MaxNy, 2>>
    /\ last_event.op = "cine_tick"
    /\ last_event.view = "coronal"
    /\ slices.coronal = MaxNy - 1
    /\ slices.axial = 1

\* C26: in every reachable state file_loaded implies that dims is set, so
\* no wheel or cine event after a load attempt finds dims missing.
C26_LoadedImpliesDims ==
    file_loaded =>
        /\ dims # NoDims
        /\ last_event.op \notin {"wheel_raised", "cine_raised"}

\* C27: every array of segmentation_data_list has the shape of the
\* displayed volume.
C27_SegmentationShapesMatch ==
    \A i \in DOMAIN segmentation_data_list : segmentation_data_list[i] = dims

\* The union of the binary masks of the files of a list that can be read.
UnionOfMasks(files) ==
    UNION {BinaryMask[files[i]] :
              i \in {j \in DOMAIN files : files[j] \in ReadableFiles}}

\* C28 as stated: when MeshLoadWorker.run has returned without cancellation
\* with a seg_manager, the merged volume in seg_manager and the one stored in
\* the disk cache are the voxelwise union of the binarised masks of all
\* readable files of files_to_load, whichever meshes were cached before.
C28_MergedVolumeIsUnion ==
    (load_worker.pc = "returned" /\ ~load_worker.cancelled
         /\ load_worker.seg_manager)
        => LET key == generate_cache_key(load_worker.files_to_load)
               all == UnionOfMasks(load_worker.files_to_load)
           IN  /\ merged_volume = all
               /\ key \in DOMAIN cache.merged
               /\ cache.merged[key] = all

\* C29 as stated: the crosshair projection builds its basis from angles of
\* the opposite sign to those the oblique extraction uses.
C29_ProjectionOppositeSign ==
    (ReturnedOblique /\ call.norm_coords # NoNormCoords) =>
        ProjectionBasis(call.rot_x_deg, call.rot_y_deg)
          = ObliqueBasis(-call.rot_x_deg, -call.rot_y_deg)

\* C29: the crosshair projection and the oblique extraction build the same
\* basis from the same angles (each negates them), so the depth the
\* projection measures is along the normal of the extracted plane.
C29_ProjectionSameSign ==
    (ReturnedOblique /\ call.norm_coords # NoNormCoords) =>
        /\ ProjectionBasis(call.rot_x_deg, call.rot_y_deg)
              = ObliqueBasis(call.rot_x_deg, call.rot_y_deg)
        /\ NormalVec(call.rot_x_deg, call.rot_y_deg)
              = ObliqueBasis(call.rot_x_deg, call.rot_y_deg).w

\* rot_y = 270 degrees with an off-centre cursor: both paths use the normal
\* (1, 0, 0), and the grid's u is (0, 0, -1).
C29_Witness ==
    /\ ReturnedOblique
    /\ call.norm_coords = [S |-> <<0, 1>>, C |-> <<1, 1>>, A |-> <<1, 4>>]
    /\ call.rot_x_deg = 0
    /\ call.rot_y_deg = 270
    /\ ProjectionBasis(0, 270).w = <<1, 0, 0>>
    /\ ObliqueBasis(0, 270).w = <<1, 0, 0>>
    /\ ObliqueBasis(0, 270).u = <<0, 0, -1>>

\* The background load last started is over: no worker, no signal of it
\* waiting for the main thread, no handler blocked.
LoadOver ==
    /\ viewer3d.loads > 0
    /\ load_worker = NoWorker
    /\ viewer3d.queued_finished = 0
    /\ ~viewer3d.waiting

\* C30 as stated: for each background load the viewer emits loading_finished
\* exactly once, whether the worker runs to completion or the user cancels
\* the dialog while the worker is running: never more than once, and once
\* when the load is over.
C30_LoadingFinishedOnce ==
    /\ viewer3d.loading_finished <= 1
    /\ LoadOver => viewer3d.loading_finished = 1

\* C31 as stated: starting from intensity_max > intensity_min, after any
\* sequence of contrast-drag mouse moves intensity_max > intensity_min still
\* holds (the window is never degenerate).
C31_WindowNeverDegenerate ==
    intensity_max > intensity_min

\* C32 as stated: get_merged_slice(axis, i) returns the slice of the current
\* merged volume, also after merged_volume was replaced by
\* build_merged_volume or by the worker; a slice cached from the previous
\* merged volume is never returned.
C32_MergedSliceIsCurrent ==
    (seg_call.fn = "get_merged_slice" /\ seg_call.key # <<>>
         /\ segmentation_manager.merged_volume.built)
        => seg_call.ret =
               ReturnedSlice(Plane(segmentation_manager.merged_volume.vol,
                                   seg_call.key[1], seg_call.key[2]))

\* The last call was a request get_slice or get_merged_slice had to refuse:
\* file index or slice index out of range, or an unknown axis.
InvalidRequest(c) ==
    c.fn \in {"get_slice", "get_merged_slice"} /\ c.key = <<>>

\* C33: after every get_slice call the slice cache holds at most
\* max_cache_slices slices and after every get_merged_slice call the merged
\* cache holds at most max_merged_cache entries; an invalid request returns
\* None and adds nothing to the caches.
C33_CachesBounded ==
    /\ [](/\ Len(segmentation_manager.slice_cache) <= MaxCacheSlices
          /\ Len(segmentation_manager.merged_cache) <= MaxCacheSlices)
    /\ [][InvalidRequest(seg_call')
             => /\ seg_call'.ret = ReturnedNone
                /\ segmentation_manager' = segmentation_manager]_vars

\* Both caches are full and the request just made was an invalid one.
C33_Witness ==
    /\ Len(segmentation_manager.slice_cache) = MaxCacheSlices
    /\ Len(segmentation_manager.merged_cache) = MaxCacheSlices
    /\ InvalidRequest(seg_call)
    /\ seg_call.fn = "get_slice"

\* C34: eviction from the slice cache is least-recently-used: the cache
\* holds exactly the keys of the last max_cache_slices distinct slices
\* get_slice returned, the least recently returned first, so a hit makes its
\* key the most recently used and an insertion over the capacity evicts the
\* key whose last access is oldest.
C34_EvictionIsLRU ==
    Keys(segmentation_manager.slice_cache) = recent_keys

\* A hit on the older entry of a full slice cache has made it the newest.
C34_Witness ==
    /\ seg_call.fn = "get_slice"
    /\ seg_call.hit
    /\ Len(segmentation_manager.slice_cache) = MaxCacheSlices
    /\ Len(segmentation_manager.slice_cache) > 1
    /\ segmentation_manager.slice_cache[
           Len(segmentation_manager.slice_cache)].key = seg_call.key
    /\ seg_call.key = <<0, "axial", 0>>
    /\ segmentation_manager.slice_cache[1].key = <<0, "sagittal", 1>>

\* C35: the disk-cache key depends only on the set of file paths and their
\* modification times: every permutation of a file list has the same key,
\* changing the modification time of a file of the list changes the key, and
\* load_merged_volume returns the volume last saved for the same files with
\* unchanged modification times, in whatever order they are listed, and
\* None if there is none.
C35_KeyOfFileSetAndTimes ==
    /\ [](/\ \A fl1 \in CacheFileLists, fl2 \in CacheFileLists :
                 Snapshot(fl1)[1] = Snapshot(fl2)[1]
                     => generate_cache_key(fl1) = generate_cache_key(fl2)
          /\ disk_call.fn = "load_merged_volume"
                 => disk_call.ret =
                        IF Snapshot(disk_call.file_paths) \in DOMAIN saved
                        THEN [kind |-> "volume",
                              vol |-> saved[Snapshot(disk_call.file_paths)].vol]
                        ELSE [kind |-> "None"])
    /\ [][\A fl \in CacheFileLists :
             (disk_call'.fn = "touch" /\ disk_call'.file \in Snapshot(fl)[1])
                 => generate_cache_key(fl)' # generate_cache_key(fl)]_vars

\* A volume saved for the files a, b is returned for the files b, a.
C35_Witness ==
    /\ disk_call.fn = "load_merged_volume"
    /\ disk_call.file_paths = <<"b", "a">>
    /\ disk_call.ret.kind = "volume"
    /\ Snapshot(disk_call.file_paths) \in DOMAIN saved
    /\ saved[Snapshot(disk_call.file_paths)].file_paths = <<"a", "b">>
    /\ mtime["a"] = 1

\* C36: a cine tick happens only on a view with cine active and a file
\* loaded, and it is the scroll transition to the index one below the
\* current one, wrapping from 0 to axis_length - 1: the view's slice index
\* becomes that index, the cursor becomes what a wheel scroll to that index
\* gives, and the other slice indices, the volume and the playback flags stay.
C36_CineTickScrollsDown ==
    [][last_event'.op = "cine_tick" =>
          LET v == last_event'.view
              i == IF slices[v] = 0 THEN AxisLen(v) - 1 ELSE slices[v] - 1
          IN  /\ cine_active[v]
              /\ file_loaded
              /\ last_event'.y = <<i, 1>>
              /\ slices'[v] = i
              /\ \A w \in Views \ {v} : slices'[w] = slices[w]
              /\ norm_coords' = ScrollCoords(v, i)
              /\ UNCHANGED <<file_loaded, dims, cine_active>>]_vars

\* A cine tick in the axial view of the largest volume has wrapped from
\* slice 0 to the last slice, which puts the cursor at A = 0.
C36_Witness ==
    /\ Loaded
    /\ dims = <<MaxNx, MaxNy, MaxNz>>
    /\ last_event = Ev("cine_tick", "axial", <<-1, 1>>, <<MaxNz - 1, 1>>)
    /\ slices.axial = MaxNz - 1
    /\ RatEq(norm_coords.A, <<0, 1>>)
    /\ cine_active["axial"]

\* C37: cine playback runs only while the cine tool is the selected tool:
\* whenever another tool is selected every view has cine_active = false, and
\* no cine tick taken then changes a slice index.
C37_CineOnlyWhileSelected ==
    /\ [](tool # cine_tool => \A v \in Views : ~cine_active[v])
    /\ [][(tool # cine_tool /\ last_event'.op = "cine_tick")
             => slices' = slices]_vars

====
